---- MODULE Spec2Model ----
(***************************************************************************)
(* Word-chain game: the generation endpoint (rate limiter, request         *)
(* validation, generator call, parsing of the generator's text) as a state *)
(* machine.  Text is a sequence of one-character strings, so that          *)
(* parseInt, JSON.parse, the regular expressions, trim and toUpperCase are *)
(* computed character by character as the JavaScript runtime does.         *)
(***************************************************************************)
EXTENDS Integers, Sequences, FiniteSets, TLC

(***************************************************************************)
(* Characters and strings                                                  *)
(***************************************************************************)
LowerSeq ==
    <<"a","b","c","d","e","f","g","h","i","j","k","l","m",
      "n","o","p","q","r","s","t","u","v","w","x","y","z">>
UpperSeq ==
    <<"A","B","C","D","E","F","G","H","I","J","K","L","M",
      "N","O","P","Q","R","S","T","U","V","W","X","Y","Z">>
DigitSeq == <<"0","1","2","3","4","5","6","7","8","9">>

Range(s) == {s[i] : i \in DOMAIN s}
LowerSet == Range(LowerSeq)
UpperSet == Range(UpperSeq)
Letters == LowerSet \cup UpperSet
Digits == Range(DigitSeq)
WordChars == Letters \cup Digits \cup {"_"}
IsLower(c) == c \in LowerSet
IsUpper(c) == c \in UpperSet
IsLetter(c) == c \in Letters
IsDigit(c) == c \in Digits
\* \w of a JavaScript regular expression
IsWordChar(c) == c \in WordChars
\* white space as String.prototype.trim, parseInt and JSON see it
IsSpace(c) == c \in {" ", "\t", "\n", "\r"}
\* the characters "." of a regular expression does not match
IsLineTerminator(c) == c \in {"\n", "\r"}

IndexIn(c, s) == CHOOSE i \in DOMAIN s : s[i] = c

\* String.prototype.toUpperCase, one character
UpperChar(c) == IF IsLower(c) THEN UpperSeq[IndexIn(c, LowerSeq)] ELSE c
\* String.prototype.toUpperCase
toUpperCase(s) == [i \in DOMAIN s |-> UpperChar(s[i])]

\* String.prototype.trim
trim(s) ==
    LET keep == {i \in DOMAIN s : ~IsSpace(s[i])}
    IN  IF keep = {} THEN <<>>
        ELSE LET lo == CHOOSE i \in keep : \A j \in keep : i <= j
                 hi == CHOOSE i \in keep : \A j \in keep : j <= i
             IN  SubSeq(s, lo, hi)

(***************************************************************************)
(* Numbers: an integer or NaN                                              *)
(***************************************************************************)
NaN == [nan |-> TRUE, n |-> 0]
Num(n) == [nan |-> FALSE, n |-> n]
\* the comparisons of JavaScript: every comparison with NaN is false,
\* except !==, which is true
Lt(a, b) == ~a.nan /\ ~b.nan /\ a.n < b.n
Gt(a, b) == ~a.nan /\ ~b.nan /\ a.n > b.n
Ge(a, b) == ~a.nan /\ ~b.nan /\ a.n >= b.n
StrictNe(a, b) == a.nan \/ b.nan \/ a.n # b.n
isNaN(a) == a.nan

\* the value of a digit in the radix, -1 when it is no digit of it
DigitValue(c, radix) ==
    LET v == IF IsDigit(c) THEN IndexIn(c, DigitSeq) - 1
             ELSE IF IsLetter(c)
                  THEN IndexIn(UpperChar(c), UpperSeq) + 9
                  ELSE -1
    IN  IF v < radix THEN v ELSE -1

RECURSIVE DigitsValue(_, _, _, _)
\* the value of the longest prefix of s[i..] made of digits of the radix,
\* acc being the value read so far
DigitsValue(s, i, radix, acc) ==
    IF i > Len(s) \/ DigitValue(s[i], radix) < 0 THEN acc
    ELSE DigitsValue(s, i + 1, radix, acc * radix + DigitValue(s[i], radix))

\* the digits d of a number in radix r, negated when neg
ParseDigits(d, r, neg) ==
    IF Len(d) = 0 \/ DigitValue(d[1], r) < 0 THEN NaN
    ELSE Num(IF neg THEN 0 - DigitsValue(d, 1, r, 0) ELSE DigitsValue(d, 1, r, 0))

\* the text u after the sign: a 0x prefix selects radix 16 when the radix
\* is absent (0) or 16
ParseUnsigned(u, radix, neg) ==
    IF radix \in {0, 16} /\ Len(u) >= 2 /\ u[1] = "0" /\ u[2] \in {"x", "X"}
    THEN ParseDigits(SubSeq(u, 3, Len(u)), 16, neg)
    ELSE ParseDigits(u, IF radix = 0 THEN 10 ELSE radix, neg)

\* the trimmed text t: an optional sign first
ParseSigned(t, radix) ==
    IF Len(t) >= 1 /\ t[1] \in {"-", "+"}
    THEN ParseUnsigned(SubSeq(t, 2, Len(t)), radix, t[1] = "-")
    ELSE ParseUnsigned(t, radix, FALSE)

\* parseInt(s, radix); radix 0 stands for the absent argument
parseInt(s, radix) == ParseSigned(trim(s), radix)

(***************************************************************************)
(* JSON.parse, for texts over letters, digits, white space and the         *)
(* characters [ ] , " - _ (no braces, no backslash, no fraction)           *)
(***************************************************************************)
\* a parsed value: a string, a number, a literal (true, false, null) or an
\* array; s is the text of a scalar, a the elements of an array
StrVal(s) == [t |-> "str", s |-> s, a |-> <<>>]
NumVal(s) == [t |-> "num", s |-> s, a |-> <<>>]
LitVal(s) == [t |-> "lit", s |-> s, a |-> <<>>]
ArrVal(a) == [t |-> "arr", s |-> <<>>, a |-> a]
ParseFail == [ok |-> FALSE, val |-> LitVal(<<>>), next |-> 0]
ParseOk(v, next) == [ok |-> TRUE, val |-> v, next |-> next]

JsonLiterals == {<<"t","r","u","e">>, <<"f","a","l","s","e">>, <<"n","u","l","l">>}

RECURSIVE SkipSpace(_, _)
\* the first position at or after i that holds no white space
SkipSpace(s, i) ==
    IF i <= Len(s) /\ IsSpace(s[i]) THEN SkipSpace(s, i + 1) ELSE i

RECURSIVE RunEnd(_, _, _)
\* the first position at or after i whose character is not in the set
RunEnd(s, i, set) ==
    IF i <= Len(s) /\ s[i] \in set THEN RunEnd(s, i + 1, set) ELSE i

\* a string: from the quote at i to the next quote, no control character
ParseString(s, i) ==
    LET close == {j \in (i + 1)..Len(s) : s[j] = "\""}
    IN  IF close = {} THEN ParseFail
        ELSE LET j == CHOOSE k \in close : \A m \in close : k <= m
                 body == SubSeq(s, i + 1, j - 1)
             IN  IF \E k \in DOMAIN body : body[k] \in {"\n", "\r", "\t"}
                 THEN ParseFail
                 ELSE ParseOk(StrVal(body), j + 1)

\* an integer: an optional minus, then 0 or a run of digits that does not
\* start with 0
ParseNumber(s, i) ==
    LET d == IF s[i] = "-" THEN i + 1 ELSE i
        e == RunEnd(s, d, Digits)
    IN  IF e = d \/ (s[d] = "0" /\ e > d + 1) THEN ParseFail
        ELSE ParseOk(NumVal(SubSeq(s, i, e - 1)), e)

ParseLiteral(s, i) ==
    LET hit == {l \in JsonLiterals :
                  i + Len(l) - 1 <= Len(s) /\ SubSeq(s, i, i + Len(l) - 1) = l}
    IN  IF hit = {} THEN ParseFail
        ELSE LET l == CHOOSE x \in hit : TRUE
             IN  ParseOk(LitVal(l), i + Len(l))

RECURSIVE ParseValue(_, _)
RECURSIVE ParseElements(_, _, _)
\* the value that starts at position i (white space already skipped)
ParseValue(s, i) ==
    IF i > Len(s) THEN ParseFail
    ELSE IF s[i] = "\"" THEN ParseString(s, i)
    ELSE IF s[i] = "-" \/ IsDigit(s[i]) THEN ParseNumber(s, i)
    ELSE IF IsLetter(s[i]) THEN ParseLiteral(s, i)
    ELSE IF s[i] = "["
         THEN LET j == SkipSpace(s, i + 1)
              IN  IF j <= Len(s) /\ s[j] = "]" THEN ParseOk(ArrVal(<<>>), j + 1)
                  ELSE ParseElements(s, j, <<>>)
    ELSE ParseFail

\* the elements of an array from position i on, acc being those read so far
ParseElements(s, i, acc) ==
    LET v == ParseValue(s, i)
    IN  IF ~v.ok THEN ParseFail
        ELSE LET j == SkipSpace(s, v.next)
                 got == Append(acc, v.val)
             IN  IF j > Len(s) THEN ParseFail
                 ELSE IF s[j] = "]" THEN ParseOk(ArrVal(got), j + 1)
                 ELSE IF s[j] = "," THEN ParseElements(s, SkipSpace(s, j + 1), got)
                 ELSE ParseFail

\* JSON.parse(text): ok is FALSE where JSON.parse throws a SyntaxError
JSONparse(s) ==
    LET v == ParseValue(s, SkipSpace(s, 1))
    IN  IF v.ok /\ SkipSpace(s, v.next) > Len(s) THEN v ELSE ParseFail

RECURSIVE JoinComma(_)
RECURSIVE String(_)
\* String(value) of a parsed value
String(v) ==
    IF v.t = "arr" THEN JoinComma(v.a) ELSE v.s
\* Array.prototype.join(","): null elements give the empty string
JoinComma(a) ==
    IF a = <<>> THEN <<>>
    ELSE LET h == IF a[1].t = "lit" /\ a[1].s = <<"n","u","l","l">>
                  THEN <<>> ELSE String(a[1])
         IN  IF Len(a) = 1 THEN h ELSE h \o <<",">> \o JoinComma(Tail(a))

(***************************************************************************)
(* The regular expressions of the two handlers                             *)
(***************************************************************************)
RECURSIVE WordMatches(_, _)
\* content.match(/\b[a-zA-Z]+\b/g) from position i on: the maximal runs of
\* \w characters that are made of letters alone, in order
WordMatches(s, i) ==
    IF i > Len(s) THEN <<>>
    ELSE IF ~IsWordChar(s[i]) THEN WordMatches(s, i + 1)
    ELSE LET e == RunEnd(s, i, WordChars)
             run == SubSeq(s, i, e - 1)
         IN  IF \A k \in DOMAIN run : IsLetter(run[k])
             THEN <<run>> \o WordMatches(s, e)
             ELSE WordMatches(s, e)

\* responseContent.match(/\[.*\]/): the leftmost "[" that a "]" follows on
\* the same line, up to the last "]" of that line; ok is FALSE for no match
BracketMatch(s) ==
    LET LineEnd(i) ==
            LET nl == {j \in i..Len(s) : IsLineTerminator(s[j])}
            IN  IF nl = {} THEN Len(s) + 1
                ELSE CHOOSE j \in nl : \A m \in nl : j <= m
        Closers(i) == {j \in (i + 1)..(LineEnd(i) - 1) : s[j] = "]"}
        starts == {i \in DOMAIN s : s[i] = "[" /\ Closers(i) # {}}
    IN  IF starts = {} THEN [ok |-> FALSE, text |-> <<>>]
        ELSE LET i == CHOOSE k \in starts : \A m \in starts : k <= m
                 j == CHOOSE k \in Closers(i) : \A m \in Closers(i) : m <= k
             IN  [ok |-> TRUE, text |-> SubSeq(s, i, j)]

(***************************************************************************)
(* Values that may be null or undefined                                    *)
(***************************************************************************)
Null == [null |-> TRUE, s |-> <<>>]
Some(s) == [null |-> FALSE, s |-> s]
\* a string in a condition: null, undefined and "" are falsy
Truthy(o) == ~o.null /\ o.s # <<>>
\* o || d
OrElse(o, d) == IF Truthy(o) THEN o.s ELSE d

\* ceil(x / d) for d > 0
CeilDiv(x, d) == 0 - ((0 - x) \div d)

(***************************************************************************)
(* Configuration                                                           *)
(***************************************************************************)
maxRequests == 10
windowMs == 15 * 60 * 1000
blockDurationMs == 5 * 60 * 1000

\* the clock advances in steps of StepMs, MaxSteps times at most
StepMs == 5 * 60 * 1000
MaxSteps == 4
\* requests of one caller inside one window
MaxWinReqs == 12
\* handlers that may be suspended at their await at the same time
MaxSlots == 1
\* ticks of the timer of a page
MaxTicks == 1
\* calls of handleSubmitWord when it is called for any row
MaxGuesses == 3
\* ticks of the timer of a page that is played to the end
MaxTimer == 61
\* the seconds the star rating is computed for
MaxSeconds == 125
Slots == 1..MaxSlots

VARIABLES
    now,               \* Date.now()
    rateLimitStore,    \* the Map: key -> [count, resetTime]
    apiKeyConfigured,  \* process.env.OPENAI_API_KEY is set
    inflight,          \* the handlers suspended at the generator call
    last,              \* the exchange the latest step answered, else Idle
    winStart,          \* per key: when its current window started, -1 none
    winReqs,           \* per key: requests that arrived in that window
    winAllowed,        \* per key: requests of that window answered 'allowed'
    seen,              \* per key: counts read by the allowed requests of it
    rejectedBefore,    \* per key: the window before it had rejected requests
    page,              \* the state of Home: its useState values
    tasks,             \* the page's interval, timeouts and pending effects
    event,             \* the call of handleSubmitWord the latest step made
    completion         \* timer, lives and rating when the chain was completed

serverVars == <<now, rateLimitStore, apiKeyConfigured, inflight, last,
                winStart, winReqs, winAllowed, seen,
                rejectedBefore>>
clientVars == <<page, tasks, event, completion>>
vars == <<serverVars, clientVars>>

(***************************************************************************)
(* Requests and generator outcomes the model draws from                    *)
(***************************************************************************)
Request(forwarded, realIp, length) ==
    [forwarded |-> forwarded, realIp |-> realIp, length |-> length]

\* the one caller of the rate-limiter specification, with the default
\* length and with a length below the range
RateRequests ==
    { Request(Some(<<"7", ",", "9">>), Null, Null),
      Request(Null, Some(<<"7">>), Some(<<"2">>)) }

\* two callers, the first reached through either header, each asking for a
\* length below the range
KeyRequests ==
    { Request(Some(<<"7", ",", "9">>), Null, Some(<<"2">>)),
      Request(Null, Some(<<"7">>), Some(<<"2">>)),
      Request(Some(<<"9", ",", "7">>), Some(<<"7">>), Some(<<"2">>)) }

\* the length parameters of the validation specification: absent, empty,
\* the ends of both ranges and their neighbours, and texts that are no
\* number or only start with one
LengthParams ==
    { Null, Some(<<>>), Some(<<"1">>), Some(<<"2">>), Some(<<"3">>),
      Some(<<"8">>), Some(<<"9">>), Some(<<"2","0">>), Some(<<"2","1">>),
      Some(<<"-","4">>), Some(<<"a","b">>), Some(<<"3","x">>) }
LenRequests == {Request(Null, Null, l) : l \in LengthParams}

\* the lengths of the parsing specification: 3, 2, the default and one that
\* is no number
GenRequests ==
    {Request(Null, Null, l) :
       l \in {Some(<<"3">>), Some(<<"2">>), Null, Some(<<"a","b">>)}}

Quoted(w) == <<"\"">> \o w \o <<"\"">>
RECURSIVE Joined(_)
Joined(elems) ==
    IF elems = <<>> THEN <<>>
    ELSE IF Len(elems) = 1 THEN elems[1]
    ELSE elems[1] \o <<",">> \o Joined(Tail(elems))
Bracketed(elems) == <<"[">> \o Joined(elems) \o <<"]">>

GO == <<"g","o">>
UP == <<"u","p">>
ON == <<"O","n">>

\* what the generator may hand back: an exception, no content, or a text
Threw(msg) == [kind |-> "throw", msg |-> msg, content |-> Null]
Returned(content) == [kind |-> "ok", msg |-> "", content |-> content]
GenTexts ==
    { Bracketed(<<Quoted(GO), Quoted(UP), Quoted(ON)>>),
      Bracketed(<<Quoted(GO), Quoted(<<" ">>), Quoted(ON)>>),
      Bracketed(<<Quoted(GO), <<"7">>, Quoted(ON)>>),
      Bracketed(<<Quoted(<<" ">> \o GO), Quoted(UP \o <<" ">>), Quoted(ON)>>),
      Bracketed(<<Quoted(GO), Quoted(UP)>>),
      <<"o","k",":"," ">> \o Bracketed(<<Quoted(GO), Quoted(UP), Quoted(ON)>>),
      GO \o <<" ">> \o UP \o <<"\n">> \o ON,
      GO \o <<" ">> \o UP,
      Quoted(GO),
      <<"[">> \o GO \o <<",">> \o UP \o <<",">> \o ON \o <<"]">> }
GenOutcomes ==
    { Threw("401 Incorrect API key provided"),
      Returned(Null), Returned(Some(<<>>)) }
    \cup {Returned(Some(t)) : t \in GenTexts}
\* a failure and a well-formed chain of five words
RateOutcomes ==
    { Threw("429 You exceeded your current quota"),
      Returned(Some(Bracketed(<<Quoted(GO), Quoted(UP), Quoted(ON),
                                Quoted(GO), Quoted(UP)>>))) }

(***************************************************************************)
(* Responses                                                               *)
(***************************************************************************)
NoHeaders == [present |-> FALSE, limit |-> 0, remaining |-> 0, reset |-> 0]
\* a response: status, the keys of its JSON body and their values (a value
\* whose key is absent is "", 0 or <<>>), and the rate-limit headers
Response(status, keys, error, message, retryAfter, words, headers) ==
    [status |-> status, keys |-> keys, error |-> error, message |-> message,
     retryAfter |-> retryAfter, words |-> words, headers |-> headers]
NoResponse == Response(0, {}, "", "", 0, <<>>, NoHeaders)

(***************************************************************************)
(* The rate limiter                                                        *)
(***************************************************************************)
WordchainPrefix == <<"w","o","r","d","c","h","a","i","n",":">>
Unknown == <<"u","n","k","n","o","w","n">>

\* s.split(",")[0]
SplitFirst(s) ==
    LET commas == {i \in DOMAIN s : s[i] = ","}
    IN  IF commas = {} THEN s
        ELSE SubSeq(s, 1, (CHOOSE i \in commas : \A j \in commas : i <= j) - 1)

getRateLimitKey(request) ==
    LET ip == IF Truthy(request.forwarded) THEN SplitFirst(request.forwarded.s)
              ELSE OrElse(request.realIp, Unknown)
    IN  WordchainPrefix \o ip

\* Map.prototype.set
MapSet(map, key, value) ==
    [k \in DOMAIN map \cup {key} |-> IF k = key THEN value ELSE map[k]]

\* the outcomes of checkRateLimit: a fresh record, a request over the limit
\* and a request inside it
FreshWindow(key, newRecord) ==
    [allowed |-> TRUE, remaining |-> maxRequests - 1,
     resetTime |-> newRecord.resetTime,
     store |-> MapSet(rateLimitStore, key, newRecord)]
OverLimit(record) ==
    [allowed |-> FALSE, remaining |-> 0,
     resetTime |-> record.resetTime, store |-> rateLimitStore]
Counted(key, record) ==
    [allowed |-> TRUE, remaining |-> maxRequests - record.count,
     resetTime |-> record.resetTime,
     store |-> MapSet(rateLimitStore, key, record)]

\* checkRateLimit with "count > maxRequests" for the limit
checkRateLimitOffByOne(key) ==
    IF key \notin DOMAIN rateLimitStore \/ now >= rateLimitStore[key].resetTime
    THEN FreshWindow(key, [count |-> 1, resetTime |-> now + windowMs])
    ELSE IF rateLimitStore[key].count > maxRequests
    THEN OverLimit(rateLimitStore[key])
    ELSE Counted(key, [rateLimitStore[key] EXCEPT !.count = @ + 1])

\* checkRateLimit with "count >= maxRequests - 1" for the limit
checkRateLimitStrict(key) ==
    IF key \notin DOMAIN rateLimitStore \/ now >= rateLimitStore[key].resetTime
    THEN FreshWindow(key, [count |-> 1, resetTime |-> now + windowMs])
    ELSE IF rateLimitStore[key].count >= maxRequests - 1
    THEN OverLimit(rateLimitStore[key])
    ELSE Counted(key, [rateLimitStore[key] EXCEPT !.count = @ + 1])

\* checkRateLimit with a window that every allowed request moves on
checkRateLimitSliding(key) ==
    IF key \notin DOMAIN rateLimitStore \/ now >= rateLimitStore[key].resetTime
    THEN FreshWindow(key, [count |-> 1, resetTime |-> now + windowMs])
    ELSE IF rateLimitStore[key].count >= maxRequests
    THEN OverLimit(rateLimitStore[key])
    ELSE Counted(key, [count |-> rateLimitStore[key].count + 1,
                       resetTime |-> now + windowMs])

\* checkRateLimit whose increment is made on a copy and never stored
checkRateLimitLostUpdate(key) ==
    IF key \notin DOMAIN rateLimitStore \/ now >= rateLimitStore[key].resetTime
    THEN FreshWindow(key, [count |-> 1, resetTime |-> now + windowMs])
    ELSE IF rateLimitStore[key].count >= maxRequests
    THEN OverLimit(rateLimitStore[key])
    ELSE [Counted(key, [rateLimitStore[key] EXCEPT !.count = @ + 1])
            EXCEPT !.store = rateLimitStore]

\* checkRateLimit that blocks a rejected caller for blockDurationMs more
checkRateLimitPenalty(key) ==
    IF key \notin DOMAIN rateLimitStore \/ now >= rateLimitStore[key].resetTime
    THEN FreshWindow(key, [count |-> 1, resetTime |-> now + windowMs])
    ELSE IF rateLimitStore[key].count >= maxRequests
    THEN [OverLimit(rateLimitStore[key]) EXCEPT
            !.store = MapSet(rateLimitStore, key,
                             [rateLimitStore[key] EXCEPT
                                !.resetTime = @ + blockDurationMs])]
    ELSE Counted(key, [rateLimitStore[key] EXCEPT !.count = @ + 1])

\* checkRateLimit(key): its result, and the store it leaves
checkRateLimit(key) ==
    IF key \notin DOMAIN rateLimitStore \/ now >= rateLimitStore[key].resetTime
    THEN LET newRecord == [count |-> 1, resetTime |-> now + windowMs]
         IN  [allowed |-> TRUE, remaining |-> maxRequests - 1,
              resetTime |-> newRecord.resetTime,
              store |-> MapSet(rateLimitStore, key, newRecord)]
    ELSE LET record == rateLimitStore[key]
         IN  IF record.count >= maxRequests
             THEN [allowed |-> FALSE, remaining |-> 0,
                   resetTime |-> record.resetTime, store |-> rateLimitStore]
             ELSE LET bumped == [record EXCEPT !.count = @ + 1]
                  IN  [allowed |-> TRUE,
                       remaining |-> maxRequests - bumped.count,
                       resetTime |-> bumped.resetTime,
                       store |-> MapSet(rateLimitStore, key, bumped)]

\* a sweep that evicts a record blockDurationMs before its window is over
SweptStoreEarly ==
    LET keep == {k \in DOMAIN rateLimitStore :
                   ~(now >= rateLimitStore[k].resetTime - blockDurationMs)}
    IN  [k \in keep |-> rateLimitStore[k]]

\* the store after the setInterval callback: the records it keeps
SweptStore ==
    LET keep == {k \in DOMAIN rateLimitStore :
                   ~(now >= rateLimitStore[k].resetTime + blockDurationMs)}
    IN  [k \in keep |-> rateLimitStore[k]]

(***************************************************************************)
(* GET of the rate-limited endpoint                                        *)
(***************************************************************************)
\* a catch block that hands the caller the text of the exception
GETCatchLeaky(error) ==
    [resp |-> Response(500, {"error", "message"},
                       "Failed to generate word chain",
                       error, 0, <<>>, NoHeaders),
     log |-> error, await |-> FALSE]

\* the catch block: the error is logged, the body is fixed
GETCatch(error) ==
    [resp |-> Response(500, {"error", "message"},
                       "Failed to generate word chain",
                       "Please try again in a moment.", 0, <<>>, NoHeaders),
     log |-> error, await |-> FALSE]

\* the X-RateLimit-* headers of a response
RateLimitHeaders(rateLimitResult) ==
    [present |-> TRUE, limit |-> maxRequests,
     remaining |-> rateLimitResult.remaining,
     reset |-> rateLimitResult.resetTime]

\* the answer to a request over the limit
TooManyRequests(rateLimitResult, resetInMinutes) ==
    [await |-> FALSE, store |-> rateLimitResult.store,
     allowed |-> FALSE, length |-> NaN,
     headers |-> RateLimitHeaders(rateLimitResult),
     resp |-> Response(429, {"error", "message", "retryAfter"},
                "Rate limit exceeded",
                "Too many requests. Please try again in ${resetInMinutes} minutes.",
                resetInMinutes, <<>>, RateLimitHeaders(rateLimitResult))]

\* a validation whose lower bound is the other endpoint's
GETValidateLoose(rateLimitResult, length) ==
    IF Lt(length, Num(2)) \/ Gt(length, Num(8))
    THEN [await |-> FALSE, store |-> rateLimitResult.store,
          allowed |-> TRUE, length |-> length,
          headers |-> RateLimitHeaders(rateLimitResult),
          resp |-> Response(400, {"error"},
                     "Invalid length. Must be between 3 and 8.",
                     "", 0, <<>>, RateLimitHeaders(rateLimitResult))]
    ELSE [await |-> TRUE, store |-> rateLimitResult.store,
          allowed |-> TRUE, length |-> length,
          headers |-> RateLimitHeaders(rateLimitResult),
          resp |-> NoResponse]

\* the handler once the request is allowed: the length is validated, then
\* the generator is called
GETValidate(rateLimitResult, length) ==
    IF Lt(length, Num(3)) \/ Gt(length, Num(8))
    THEN [await |-> FALSE, store |-> rateLimitResult.store,
          allowed |-> TRUE, length |-> length,
          headers |-> RateLimitHeaders(rateLimitResult),
          resp |-> Response(400, {"error"},
                     "Invalid length. Must be between 3 and 8.",
                     "", 0, <<>>, RateLimitHeaders(rateLimitResult))]
    ELSE [await |-> TRUE, store |-> rateLimitResult.store,
          allowed |-> TRUE, length |-> length,
          headers |-> RateLimitHeaders(rateLimitResult),
          resp |-> NoResponse]

\* a handler that rounds the minutes down
GETLimitedFloor(request, rateLimitResult, dateNow) ==
    IF ~rateLimitResult.allowed
    THEN TooManyRequests(rateLimitResult,
                         (rateLimitResult.resetTime - dateNow) \div 60000)
    ELSE GETValidate(rateLimitResult,
                     parseInt(OrElse(request.length, <<"5">>), 0))

\* the handler after checkRateLimit; dateNow is what its own Date.now()
\* returns, the second reading of the clock in the request
GETLimitedAt(request, rateLimitResult, dateNow) ==
    IF ~rateLimitResult.allowed
    THEN TooManyRequests(rateLimitResult,
                         CeilDiv(rateLimitResult.resetTime - dateNow, 60000))
    ELSE GETValidate(rateLimitResult,
                     parseInt(OrElse(request.length, <<"5">>), 0))

\* the handler after checkRateLimit, both readings in the same millisecond
GETLimited(request, rateLimitResult) ==
    GETLimitedAt(request, rateLimitResult, now)

\* a handler that leaves the record alone when the length is out of range
GETBeforeAwaitUncharged(request) ==
    IF \/ Lt(parseInt(OrElse(request.length, <<"5">>), 0), Num(3))
       \/ Gt(parseInt(OrElse(request.length, <<"5">>), 0), Num(8))
    THEN [GETLimited(request, checkRateLimit(getRateLimitKey(request)))
            EXCEPT !.store = rateLimitStore]
    ELSE GETLimited(request, checkRateLimit(getRateLimitKey(request)))

\* the handler up to its await: the rate limit, then the length.  await is
\* TRUE when it goes on to call the generator, else resp is its answer
GETBeforeAwait(request) ==
    GETLimited(request, checkRateLimit(getRateLimitKey(request)))

\* words.slice(0, length)
Slice(a, length) == SubSeq(a, 1, IF length.n < Len(a) THEN length.n ELSE Len(a))

\* words.map(...): every element as a trimmed, uppercased string
CleanWords(words) ==
    [i \in DOMAIN words |->
       toUpperCase(trim(IF words[i].t = "str" THEN words[i].s
                        ELSE String(words[i])))]

\* the parsed value is validated and cleaned
GETCheckWords(length, headers, words) ==
    IF words.t # "arr" \/ StrictNe(Num(Len(words.a)), length)
    THEN GETCatch("Expected ${length} words, got ${words?.length || 0}")
    ELSE [resp |-> Response(200, {"words"}, "", "", 0,
                            CleanWords(words.a), headers),
          log |-> "", await |-> FALSE]

\* wordMatches.slice(0, length) as an array of strings
MatchedWords(wordMatches, length) ==
    ArrVal([i \in DOMAIN Slice(wordMatches, length) |-> StrVal(wordMatches[i])])

\* JSON.parse first, the word matches of the text when it throws
GETParse(length, headers, parsed, wordMatches) ==
    IF parsed.ok THEN GETCheckWords(length, headers, parsed.val)
    ELSE IF Ge(Num(Len(wordMatches)), length)
    THEN GETCheckWords(length, headers, MatchedWords(wordMatches, length))
    ELSE GETCatch("Failed to parse word chain from response")

\* a handler that calls the generator again when the call throws
GETAfterAwaitRetry(length, headers, outcome) ==
    IF outcome.kind = "throw"
    THEN [resp |-> NoResponse, log |-> outcome.msg, await |-> TRUE]
    ELSE IF ~Truthy(outcome.content)
    THEN GETCatch("No response from OpenAI")
    ELSE GETParse(length, headers, JSONparse(outcome.content.s),
                  WordMatches(outcome.content.s, 1))

\* the handler after its await: the completion is read, parsed, validated
\* and cleaned; resp is the answer, log what console.error was given, and
\* await tells whether the handler awaits the generator again (it never does)
GETAfterAwait(length, headers, outcome) ==
    IF outcome.kind = "throw" THEN GETCatch(outcome.msg)
    ELSE IF ~Truthy(outcome.content)
    THEN GETCatch("No response from OpenAI")
    ELSE GETParse(length, headers, JSONparse(outcome.content.s),
                  WordMatches(outcome.content.s, 1))

(***************************************************************************)
(* GET of the endpoint without rate limit                                  *)
(***************************************************************************)
PlainGETCatch(error) ==
    [resp |-> Response(500, {"error"}, "Word chain generation failed",
                       "", 0, <<>>, NoHeaders),
     log |-> error, await |-> FALSE]

\* the handler up to its await, the length parsed: the length is
\* validated, then the API key
PlainGETValidate(length) ==
    IF isNaN(length) \/ Lt(length, Num(2)) \/ Gt(length, Num(20))
    THEN [await |-> FALSE, length |-> length,
          resp |-> Response(400, {"error"},
                     "Length must be a number between 2 and 20",
                     "", 0, <<>>, NoHeaders)]
    ELSE IF ~apiKeyConfigured
    THEN [await |-> FALSE, length |-> length,
          resp |-> Response(500, {"error"},
                     "OpenAI API key not configured",
                     "", 0, <<>>, NoHeaders)]
    ELSE [await |-> TRUE, length |-> length, resp |-> NoResponse]

\* the handler up to its await
PlainGETBeforeAwait(request) ==
    PlainGETValidate(IF Truthy(request.length)
                     THEN parseInt(request.length.s, 10) ELSE Num(5))

\* the parsed text of the bracket match is validated and returned as it is
PlainGETCheckWords(length, words) ==
    IF \/ ~words.ok
       \/ words.val.t # "arr"
       \/ StrictNe(Num(Len(words.val.a)), length)
       \/ ~(\A i \in DOMAIN words.val.a :
              /\ words.val.a[i].t = "str"
              /\ Len(trim(words.val.a[i].s)) > 0)
    THEN PlainGETCatch("Failed to parse word chain response")
    ELSE [resp |-> Response(200, {"words"}, "", "", 0,
                            [i \in DOMAIN words.val.a |-> words.val.a[i].s],
                            NoHeaders),
          log |-> "", await |-> FALSE]

\* the bracket match is parsed
PlainGETParse(length, jsonMatch) ==
    IF ~jsonMatch.ok THEN PlainGETCatch("Failed to parse word chain response")
    ELSE PlainGETCheckWords(length, JSONparse(jsonMatch.text))

\* the handler after its await
PlainGETAfterAwait(length, outcome) ==
    IF outcome.kind = "throw" THEN PlainGETCatch(outcome.msg)
    ELSE IF ~Truthy(outcome.content)
    THEN PlainGETCatch("No response from OpenAI")
    ELSE PlainGETParse(length, BracketMatch(outcome.content.s))

(***************************************************************************)
(* Exchanges: one request and what the handler has made of it              *)
(***************************************************************************)
\* pc: idle, awaiting (suspended at the generator call) or done.
\* genCalls counts the calls of openai.chat.completions.create, genArg is
\* the length the prompt carried, outcome what the last call handed back.
\* ordinal is the position of the request in the window win of its caller,
\* observed the count checkRateLimit read for it (0 for a fresh window).
Exchange(handler, request) ==
    [pc |-> "idle", handler |-> handler, request |-> request, key |-> <<>>,
     length |-> NaN, headers |-> NoHeaders, genCalls |-> 0, genArg |-> NaN,
     outcome |-> Returned(Null), resp |-> NoResponse, log |-> "",
     ordinal |-> 0, win |-> 0 - 1, observed |-> 0, allowed |-> FALSE]
Idle == Exchange("none", Request(Null, Null, Null))

AllRequests == RateRequests \cup KeyRequests \cup LenRequests \cup GenRequests
AllKeys == {getRateLimitKey(q) : q \in AllRequests}

IdleSlots(slots) == {r \in slots : inflight[r].pc = "idle"}
LeastOf(set) == CHOOSE r \in set : \A q \in set : r <= q

\* a handler that reaches its await is parked in the least idle slot, one
\* that answers at once is the exchange this step answered
Park(x, await, slots) ==
    IF await
    THEN /\ IdleSlots(slots) # {}
         /\ inflight' = [inflight EXCEPT ![LeastOf(IdleSlots(slots))] =
                           [x EXCEPT !.pc = "awaiting", !.genCalls = @ + 1,
                                     !.genArg = x.length]]
         /\ last' = Idle
    ELSE /\ last' = [x EXCEPT !.pc = "done"]
         /\ UNCHANGED inflight

\* the handler of slot r goes on after its await with result a
Settle(r, outcome, a) ==
    IF a.await
    THEN /\ inflight' = [inflight EXCEPT ![r].genCalls = @ + 1,
                                         ![r].outcome = outcome]
         /\ last' = Idle
    ELSE /\ last' = [inflight[r] EXCEPT !.pc = "done", !.outcome = outcome,
                                        !.resp = a.resp, !.log = a.log]
         /\ inflight' = [inflight EXCEPT ![r] = Idle]

(***************************************************************************)
(* Actions                                                                 *)
(***************************************************************************)
\* the request of key opens a window of the caller
NewWindow(key) == winStart[key] < 0 \/ now >= winStart[key] + windowMs

\* the count checkRateLimit reads for key, 0 when it starts a fresh record
Observed(key) ==
    IF key \notin DOMAIN rateLimitStore \/ now >= rateLimitStore[key].resetTime
    THEN 0 ELSE rateLimitStore[key].count

\* the exchange of a request that has run to its await or to its answer b
Arrival(request, key, b, newWin, observed) ==
    [Exchange("route", request) EXCEPT
       !.key = key, !.length = b.length, !.headers = b.headers,
       !.resp = b.resp, !.allowed = b.allowed,
       !.ordinal = IF newWin THEN 1 ELSE winReqs[key] + 1,
       !.win = IF newWin THEN now ELSE winStart[key],
       !.observed = observed]

\* the books of the caller's window
Account(key, allowed, newWin, observed) ==
    /\ winStart' = [winStart EXCEPT ![key] = IF newWin THEN now ELSE @]
    /\ winReqs' = [winReqs EXCEPT ![key] = IF newWin THEN 1 ELSE @ + 1]
    /\ winAllowed' = [winAllowed EXCEPT ![key] =
                        (IF newWin THEN 0 ELSE @) + (IF allowed THEN 1 ELSE 0)]
    /\ seen' = [seen EXCEPT ![key] =
                  (IF newWin THEN {} ELSE @)
                  \cup (IF allowed THEN {observed} ELSE {})]
    /\ rejectedBefore' = [rejectedBefore EXCEPT ![key] =
                            IF newWin THEN winReqs[key] > winAllowed[key]
                            ELSE @]

\* the request is handled to its await or to its answer b, ms milliseconds
\* passing between checkRateLimit and the end of the step
GETStartAt(request, slots, key, b, ms) ==
    /\ NewWindow(key) \/ winReqs[key] < MaxWinReqs
    /\ now + ms <= MaxSteps * StepMs
    /\ now' = now + ms
    /\ rateLimitStore' = b.store
    /\ Account(key, b.allowed, NewWindow(key), Observed(key))
    /\ Park(Arrival(request, key, b, NewWindow(key), Observed(key)),
            b.await, slots)
    /\ UNCHANGED apiKeyConfigured
    /\ UNCHANGED clientVars

GETStartAs(request, slots, key, b) == GETStartAt(request, slots, key, b, 0)

\* a request reaches the rate-limited endpoint and the clock moves on by ms
\* milliseconds between the Date.now() of checkRateLimit and that of GET
GETStartSlow(request, slots, ms) ==
    GETStartAt(request, slots, getRateLimitKey(request),
               GETLimitedAt(request, checkRateLimit(getRateLimitKey(request)),
                            now + ms),
               ms)

\* a request reaches the rate-limited endpoint; its handler runs to the
\* await or to its answer
GETStart(request, slots) ==
    GETStartAs(request, slots, getRateLimitKey(request), GETBeforeAwait(request))

\* the generator call of slot r settles and the handler runs to its end
GETResume(r, outcome) ==
    /\ inflight[r].pc = "awaiting"
    /\ inflight[r].handler = "route"
    /\ Settle(r, outcome,
              GETAfterAwait(inflight[r].length, inflight[r].headers, outcome))
    /\ UNCHANGED <<now, rateLimitStore, apiKeyConfigured,
                   winStart, winReqs, winAllowed, seen,
                   rejectedBefore>>
    /\ UNCHANGED clientVars

PlainArrival(request, b) ==
    [Exchange("plain", request) EXCEPT !.length = b.length, !.resp = b.resp]

PlainGETStartAs(request, slots, b) ==
    /\ Park(PlainArrival(request, b), b.await, slots)
    /\ UNCHANGED <<now, rateLimitStore, apiKeyConfigured,
                   winStart, winReqs, winAllowed, seen,
                   rejectedBefore>>
    /\ UNCHANGED clientVars

\* a request reaches the endpoint without rate limit
PlainGETStart(request, slots) ==
    PlainGETStartAs(request, slots, PlainGETBeforeAwait(request))

PlainGETResume(r, outcome) ==
    /\ inflight[r].pc = "awaiting"
    /\ inflight[r].handler = "plain"
    /\ Settle(r, outcome, PlainGETAfterAwait(inflight[r].length, outcome))
    /\ UNCHANGED <<now, rateLimitStore, apiKeyConfigured,
                   winStart, winReqs, winAllowed, seen,
                   rejectedBefore>>
    /\ UNCHANGED clientVars

\* time passes
AdvanceTime ==
    /\ now + StepMs <= MaxSteps * StepMs
    /\ now' = now + StepMs
    /\ last' = Idle
    /\ UNCHANGED <<rateLimitStore, apiKeyConfigured, inflight,
                   winStart, winReqs, winAllowed, seen,
                   rejectedBefore>>
    /\ UNCHANGED clientVars

\* ms milliseconds pass
Elapse(ms) ==
    /\ now + ms <= MaxSteps * StepMs
    /\ now' = now + ms
    /\ last' = Idle
    /\ UNCHANGED <<rateLimitStore, apiKeyConfigured, inflight,
                   winStart, winReqs, winAllowed, seen,
                   rejectedBefore>>
    /\ UNCHANGED clientVars

\* the setInterval callback that evicts old records
Sweep ==
    /\ rateLimitStore' = SweptStore
    /\ last' = Idle
    /\ UNCHANGED <<now, apiKeyConfigured, inflight,
                   winStart, winReqs, winAllowed, seen,
                   rejectedBefore>>
    /\ UNCHANGED clientVars

(***************************************************************************)
(* The page: the state of Home and its handlers                            *)
(***************************************************************************)
\* the two versions of the page: src/unnamed/part_002, which reveals one
\* more letter after every wrong guess, and src/app/page.tsx, which does not
Clients == {"part_002", "page"}

\* Array(9) and Array(12): the positions of userInput
Capacity(client) == IF client = "part_002" THEN 9 ELSE 12

MathMin(a, b) == IF a < b THEN a ELSE b
MathMax(a, b) == IF a > b THEN a ELSE b

\* Array(n).fill('')
Blank(n) == [j \in 1..n |-> ""]
\* a[i] with the indices of JavaScript; an undefined element reads as ''
At(a, i) == IF i >= 0 /\ i < Len(a) THEN a[i + 1] ELSE ""
\* a[i] = v, the array growing when i is beyond its end
SetAt(a, i, v) ==
    [j \in 1..MathMax(Len(a), i + 1) |->
       IF j = i + 1 THEN v ELSE IF j <= Len(a) THEN a[j] ELSE ""]
\* a.join('') for an array of characters and empty strings
RECURSIVE Join(_)
Join(a) ==
    IF a = <<>> THEN <<>>
    ELSE (IF a[1] = "" THEN <<>> ELSE <<a[1]>>) \o Join(Tail(a))

\* number | null and string | null
NoHeart == [null |-> TRUE, n |-> 0]
Heart(n) == [null |-> FALSE, n |-> n]
NoError == [null |-> TRUE, message |-> ""]
Error(message) == [null |-> FALSE, message |-> message]

\* the useState values of Home at its first render
InitPage(client) ==
    [client |-> client, words |-> <<>>, loading |-> TRUE, error |-> NoError,
     timer |-> 0, lives |-> 5, isTimerRunning |-> FALSE,
     selectedWordIndex |-> 1, droppingHeart |-> NoHeart,
     screenShake |-> FALSE, totalGuesses |-> 0]

\* index is the first or the last word, or no word at all
IsBoundary(words, index) == index < 1 \/ index >= Len(words) - 1

\* one element of wordsWithStatus.  page.tsx keeps no hintsRevealed: the
\* field counts the letters it pre-fills, the locked first letter
WordWithStatus(client, dataWords, index) ==
    [word |-> toUpperCase(dataWords[index + 1]),
     status |-> IF index = 0 \/ index = Len(dataWords) - 1
                THEN "solved" ELSE "unsolved",
     userInput |->
        IF IsBoundary(dataWords, index) THEN Blank(Capacity(client))
        ELSE SetAt(Blank(Capacity(client)), 0,
                   At(IF client = "part_002" THEN dataWords[index + 1]
                      ELSE toUpperCase(dataWords[index + 1]), 0)),
     currentIndex |-> IF IsBoundary(dataWords, index) THEN 0 ELSE 1,
     hintsRevealed |-> IF IsBoundary(dataWords, index) THEN 0 ELSE 1]

\* words.findIndex(word => word.status === 'unsolved')
FirstUnsolved(words) ==
    LET unsolved == {i \in 0..(Len(words) - 1) : words[i + 1].status = "unsolved"}
    IN  IF unsolved = {} THEN 0 - 1
        ELSE CHOOSE i \in unsolved : \A j \in unsolved : i <= j

\* the page after the fetch has delivered data.words
Initialized(p, words) ==
    [p EXCEPT !.words = words,
              !.selectedWordIndex =
                  IF p.client = "part_002" /\ FirstUnsolved(words) # 0 - 1
                  THEN FirstUnsolved(words) ELSE @,
              !.isTimerRunning = TRUE,
              !.loading = FALSE]
fetchWordChain(p, dataWords) ==
    Initialized([p EXCEPT !.loading = TRUE, !.error = NoError],
                [k \in 1..Len(dataWords) |->
                   WordWithStatus(p.client, dataWords, k - 1)])

\* the page after the fetch has failed
fetchWordChainCatch(p, message) ==
    [p EXCEPT !.error = Error(message), !.loading = FALSE]

\* a game that is over only below zero lives
isGameOverBelow(p) == p.lives < 0

\* isGameComplete and isGameOver of a render
isGameComplete(p) == \A k \in DOMAIN p.words : p.words[k].status = "solved"
isGameOver(p) == p.lives <= 0

\* a rating whose first threshold is strict
getStarRatingStrict(timer, lives) ==
    IF timer < 60 /\ lives >= 4 THEN 3
    ELSE IF timer <= 120 /\ lives >= 2 THEN 2
    ELSE 1

\* getStarRating
getStarRating(timer, lives) ==
    IF timer <= 60 /\ lives >= 4 THEN 3
    ELSE IF timer <= 120 /\ lives >= 2 THEN 2
    ELSE 1

\* a page that has no game-over screen
ScreenWithoutGameOver(p) ==
    IF p.loading THEN "loading"
    ELSE IF ~p.error.null /\ p.error.message # "" THEN "error"
    ELSE IF isGameComplete(p) /\ Len(p.words) > 0 THEN "complete"
    ELSE "board"

\* what Home returns: the first of its return statements that applies
Screen(p) ==
    IF p.loading THEN "loading"
    ELSE IF ~p.error.null /\ p.error.message # "" THEN "error"
    ELSE IF isGameComplete(p) /\ Len(p.words) > 0 THEN "complete"
    ELSE IF isGameOver(p) THEN "over"
    ELSE "board"

\* the word with key written at its cursor
Typed(word, key) ==
    [word EXCEPT !.userInput = SetAt(@, word.currentIndex, toUpperCase(<<key>>)[1]),
                 !.currentIndex = @ + 1,
                 !.status = "solving"]

\* a handler that writes beyond the last position
handleKeyPressUnbounded(p, key) ==
    IF IsBoundary(p.words, p.selectedWordIndex) THEN p
    ELSE IF p.words[p.selectedWordIndex + 1].status = "solved" THEN p
    ELSE [p EXCEPT !.words[p.selectedWordIndex + 1] = Typed(@, key)]

\* a handler that writes into solved words too
handleKeyPressAnyStatus(p, key) ==
    IF IsBoundary(p.words, p.selectedWordIndex) THEN p
    ELSE IF p.words[p.selectedWordIndex + 1].currentIndex >= Capacity(p.client)
    THEN p
    ELSE [p EXCEPT !.words[p.selectedWordIndex + 1] = Typed(@, key)]

handleKeyPress(p, key) ==
    IF IsBoundary(p.words, p.selectedWordIndex) THEN p
    ELSE IF \/ p.words[p.selectedWordIndex + 1].status = "solved"
            \/ p.words[p.selectedWordIndex + 1].currentIndex >= Capacity(p.client)
    THEN p
    ELSE [p EXCEPT !.words[p.selectedWordIndex + 1] = Typed(@, key)]

\* the cursor below which handleBackspace does nothing
minIndex(client, word) ==
    IF client = "part_002" THEN MathMax(1, word.hintsRevealed) ELSE 1

\* the word with the character before its cursor cleared
Erased(word) ==
    [word EXCEPT !.userInput = SetAt(@, word.currentIndex - 1, ""),
                 !.currentIndex = @ - 1]

\* a handler that erases in solved words too
handleBackspaceAnyStatus(p) ==
    IF IsBoundary(p.words, p.selectedWordIndex) THEN p
    ELSE IF p.words[p.selectedWordIndex + 1].currentIndex
              <= minIndex(p.client, p.words[p.selectedWordIndex + 1])
    THEN p
    ELSE [p EXCEPT !.words[p.selectedWordIndex + 1] = Erased(@)]

handleBackspace(p) ==
    IF IsBoundary(p.words, p.selectedWordIndex) THEN p
    ELSE IF \/ p.words[p.selectedWordIndex + 1].status = "solved"
            \/ p.words[p.selectedWordIndex + 1].currentIndex
                 <= minIndex(p.client, p.words[p.selectedWordIndex + 1])
    THEN p
    ELSE [p EXCEPT !.words[p.selectedWordIndex + 1] = Erased(@)]

\* userInput.join('').trim() === word
isCorrect(word) == trim(Join(word.userInput)) = word.word

\* newInput of part_002: the first n letters of the word, then ''
HintInput(client, word, n) ==
    [j \in 1..MathMax(Capacity(client), n) |->
       IF j <= n THEN At(word.word, j - 1) ELSE ""]

\* the word after a wrong guess
FailedWord(client, word) ==
    IF client = "part_002"
    THEN [word EXCEPT
            !.status = "failed",
            !.userInput = HintInput(client, word,
                             MathMin(word.hintsRevealed + 1, Len(word.word))),
            !.currentIndex = MathMin(word.hintsRevealed + 1, Len(word.word)),
            !.hintsRevealed = MathMin(word.hintsRevealed + 1, Len(word.word))]
    ELSE [word EXCEPT
            !.status = "failed",
            !.userInput = SetAt(Blank(Capacity(client)), 0, At(word.word, 0)),
            !.currentIndex = 1]

\* a correct guess that always moves the selection on
SubmitCorrectAlwaysNext(p, index) ==
    [p EXCEPT !.totalGuesses = @ + 1,
              !.words[index + 1].status = "solved",
              !.selectedWordIndex = index + 1]

\* the branches of handleSubmitWord
SubmitCorrect(p, index) ==
    [p EXCEPT !.totalGuesses = @ + 1,
              !.words[index + 1].status = "solved",
              !.selectedWordIndex =
                  IF index < Len(p.words) - 2 THEN index + 1 ELSE @]
SubmitWrong(p, index) ==
    [p EXCEPT !.totalGuesses = @ + 1,
              !.droppingHeart = Heart(p.lives - 1),
              !.screenShake = TRUE,
              !.words[index + 1] = FailedWord(p.client, @),
              !.lives = @ - 1]

\* a handler that does not count the guess of a solved word
handleSubmitWordOnce(p, index) ==
    IF IsBoundary(p.words, index) THEN p
    ELSE IF p.words[index + 1].status = "solved" THEN p
    ELSE IF isCorrect(p.words[index + 1]) THEN SubmitCorrect(p, index)
    ELSE SubmitWrong(p, index)

\* a handler that judges the first and the last word too
handleSubmitWordAnyRow(p, index) ==
    IF index < 0 \/ index >= Len(p.words) THEN p
    ELSE IF isCorrect(p.words[index + 1]) THEN SubmitCorrect(p, index)
    ELSE SubmitWrong(p, index)

handleSubmitWord(p, index) ==
    IF IsBoundary(p.words, index) THEN p
    ELSE IF isCorrect(p.words[index + 1]) THEN SubmitCorrect(p, index)
    ELSE SubmitWrong(p, index)

\* handleSubmitWord(index) ends with a setTimeout
SchedulesRevert(p, index) ==
    ~IsBoundary(p.words, index) /\ ~isCorrect(p.words[index + 1])

\* a callback that takes the word back to unsolved whatever its status
RevertCallbackAny(p, index) ==
    [p EXCEPT !.droppingHeart = NoHeart,
              !.screenShake = FALSE,
              !.words = [k \in DOMAIN p.words |->
                           IF k - 1 = index
                           THEN [p.words[k] EXCEPT !.status = "unsolved"]
                           ELSE p.words[k]]]

\* the callback of that setTimeout
RevertCallback(p, index) ==
    [p EXCEPT !.droppingHeart = NoHeart,
              !.screenShake = FALSE,
              !.words = [k \in DOMAIN p.words |->
                           IF k - 1 = index /\ p.words[k].status = "failed"
                           THEN [p.words[k] EXCEPT !.status = "unsolved"]
                           ELSE p.words[k]]]

\* the callbacks of a page: interval is the setInterval of the timer
\* effect, reverts the pending timeouts of handleSubmitWord in the order
\* they were set, reload the timeout of the game-over effect; late tells
\* that the interval has fired while effects of a render were pending
NoTasks == [interval |-> FALSE, reverts |-> <<>>, reload |-> FALSE,
            late |-> FALSE]

NoEvent == [op |-> "none", index |-> 0 - 1]
Event(op, index) == [op |-> op, index |-> index]
NotCompleted == [done |-> FALSE, timer |-> 0, lives |-> 0, rating |-> 0]

\* a step of the page that leaves it as p with the tasks t
Commit(p, t, e) ==
    /\ page' = p
    /\ tasks' = t
    /\ event' = e
    /\ completion' =
         IF ~completion.done /\ isGameComplete(p) /\ Len(p.words) > 0
         THEN [done |-> TRUE, timer |-> p.timer, lives |-> p.lives,
               rating |-> getStarRating(p.timer, p.lives)]
         ELSE completion
    /\ UNCHANGED serverVars

(***************************************************************************)
(* Actions of the page                                                     *)
(***************************************************************************)
\* the fetch of the mount effect delivers a chain
FetchResolves(dataWords) ==
    /\ page.loading
    /\ Commit(fetchWordChain(page, dataWords), tasks, NoEvent)

\* the fetch fails or is answered with an error
FetchFails(message) ==
    /\ page.loading
    /\ Commit(fetchWordChainCatch(page, message), tasks, NoEvent)

\* an effect of the last render has not run yet.  React runs the effects
\* of a render before it starts the next update, so the clicks of the
\* player find none pending; the callbacks of timers do not wait for them
EffectsPending(p, t) ==
    \/ t.interval # p.isTimerRunning
    \/ isGameComplete(p) /\ Len(p.words) > 0 /\ p.isTimerRunning
    \/ isGameOver(p) /\ ~t.reload

\* the player clicks a row of the grid
ClickWord(index) ==
    /\ Screen(page) = "board"
    /\ ~EffectsPending(page, tasks)
    /\ index \in 0..(Len(page.words) - 1)
    /\ Commit([page EXCEPT !.selectedWordIndex = index], tasks,
              NoEvent)

\* the player clicks a key of the keyboard
PressKey(key) ==
    /\ Screen(page) = "board"
    /\ ~EffectsPending(page, tasks)
    /\ Commit(handleKeyPress(page, key), tasks,
              NoEvent)

PressBackspace ==
    /\ Screen(page) = "board"
    /\ ~EffectsPending(page, tasks)
    /\ Commit(handleBackspace(page), tasks,
              NoEvent)

\* handleSubmitWord(index) is called
Submit(index) ==
    /\ Screen(page) = "board"
    /\ ~EffectsPending(page, tasks)
    /\ index \in 0..(Len(page.words) - 1)
    /\ Commit(handleSubmitWord(page, index),
              IF SchedulesRevert(page, index)
              THEN [tasks EXCEPT !.reverts = Append(@, index)] ELSE tasks,
              Event("submit", index))

\* the GO button of a row is rendered and not disabled
GoEnabled(p, index) ==
    /\ index > 0 /\ index < Len(p.words) - 1
    /\ ~(p.words[index + 1].status = "solved"
         \/ p.words[index + 1].currentIndex = 0)

\* the player clicks the GO button of a row
ClickGo(index) ==
    /\ index \in 0..(Len(page.words) - 1)
    /\ GoEnabled(page, index)
    /\ Submit(index)

\* the effects that are pending run within the second that separates
\* two ticks
Settled(p, t) == [t EXCEPT !.late = @ /\ EffectsPending(p, t)]

\* the callback of setInterval; it fires at most once before the pending
\* effects have run
Tick(maxTimer) ==
    /\ tasks.interval
    /\ ~tasks.late
    /\ page.timer < maxTimer
    /\ Commit([page EXCEPT !.timer = @ + 1],
              [tasks EXCEPT !.late = EffectsPending(page, tasks)], NoEvent)

\* the oldest pending timeout of handleSubmitWord fires
Revert ==
    /\ tasks.reverts # <<>>
    /\ Commit(RevertCallback(page, Head(tasks.reverts)),
              [tasks EXCEPT !.reverts = Tail(@)],
              NoEvent)

\* the timer effect and its cleanup: the interval follows isTimerRunning
TimerEffect ==
    /\ tasks.interval # page.isTimerRunning
    /\ Commit(page,
              Settled(page, [tasks EXCEPT !.interval = page.isTimerRunning]),
              NoEvent)

\* the effect that stops the timer when the chain is complete
CompleteEffect ==
    /\ isGameComplete(page) /\ Len(page.words) > 0
    /\ page.isTimerRunning
    /\ Commit([page EXCEPT !.isTimerRunning = FALSE],
              Settled([page EXCEPT !.isTimerRunning = FALSE], tasks),
              NoEvent)

\* the effect that stops the timer and sets the reload when the game is over
GameOverEffect ==
    /\ isGameOver(page)
    /\ ~tasks.reload
    /\ Commit([page EXCEPT !.isTimerRunning = FALSE],
              Settled([page EXCEPT !.isTimerRunning = FALSE],
                      [tasks EXCEPT !.reload = TRUE]),
              NoEvent)

\* window.location.reload(): the page starts again
Reloaded ==
    /\ page' = InitPage(page.client)
    /\ tasks' = NoTasks
    /\ event' = NoEvent
    /\ completion' = NotCompleted
    /\ UNCHANGED serverVars

\* the player clicks Try Again or Continue to Next Puzzle
ClickReload ==
    /\ Screen(page) \in {"error", "complete"}
    /\ ~EffectsPending(page, tasks)
    /\ Reloaded

\* the timeout of the game-over effect fires
ReloadTimeout ==
    /\ tasks.reload
    /\ Reloaded

InitClient ==
    /\ page = InitPage("part_002")
    /\ tasks = NoTasks
    /\ event = NoEvent
    /\ completion = NotCompleted

(***************************************************************************)
(* Specifications                                                          *)
(***************************************************************************)
InitServer ==
    /\ now = 0
    /\ rateLimitStore = << >>
    /\ inflight = [r \in Slots |-> Idle]
    /\ last = Idle
    /\ winStart = [k \in AllKeys |-> 0 - 1]
    /\ winReqs = [k \in AllKeys |-> 0]
    /\ winAllowed = [k \in AllKeys |-> 0]
    /\ seen = [k \in AllKeys |-> {}]
    /\ rejectedBefore = [k \in AllKeys |-> FALSE]

\* the rate limiter under concurrent requests, the clock and the sweep
Init ==
    /\ InitServer
    /\ InitClient
    /\ apiKeyConfigured = TRUE

Next ==
    \/ \E request \in RateRequests : GETStart(request, Slots)
    \/ \E r \in Slots, outcome \in RateOutcomes : GETResume(r, outcome)
    \/ AdvanceTime
    \/ Sweep

Spec == Init /\ [][Next]_vars

\* no handler is suspended
Quiet == \A r \in Slots : inflight[r].pc = "idle"

\* the rate limiter with two callers whose requests are answered at once,
\* the clock and the sweep
NextKeys ==
    \/ \E request \in KeyRequests : GETStart(request, {})
    \/ AdvanceTime
    \/ Sweep

SpecKeys == Init /\ [][NextKeys]_vars

\* the validation of the length in both endpoints, one request at a time
InitLen ==
    /\ InitServer
    /\ InitClient
    /\ apiKeyConfigured \in BOOLEAN

NextLen ==
    \/ Quiet /\ \E request \in LenRequests : GETStart(request, {1})
    \/ \E outcome \in RateOutcomes : GETResume(1, outcome)
    \/ Quiet /\ \E request \in LenRequests : PlainGETStart(request, {1})
    \/ \E outcome \in RateOutcomes : PlainGETResume(1, outcome)

SpecLen == InitLen /\ [][NextLen]_vars

\* generation and parsing in both endpoints, one request at a time, for
\* every generator outcome
NextGen ==
    \/ Quiet /\ \E request \in GenRequests : GETStart(request, {1})
    \/ \E outcome \in GenOutcomes : GETResume(1, outcome)
    \/ Quiet /\ \E request \in GenRequests : PlainGETStart(request, {1})
    \/ \E outcome \in GenOutcomes : PlainGETResume(1, outcome)

SpecGen == InitLen /\ [][NextGen]_vars

\* the chains the fetch may deliver and the keys the player clicks
Chain3 == << <<"G","O">>, <<"U","P">>, <<"O","N">> >>
Chain4 == << <<"G","O">>, <<"U","P">>, <<"O","P">>, <<"O","N">> >>
\* a chain with an empty word, which route.ts lets through
ChainGap == << <<"G","O">>, <<>>, <<"O","N">> >>
Chains == {Chain3, Chain4, ChainGap}
Keys == {"P"}

\* one page of either version, the server at rest
InitPuzzle ==
    /\ InitServer
    /\ apiKeyConfigured = TRUE
    /\ page \in {InitPage(client) : client \in Clients}
    /\ tasks = NoTasks
    /\ event = NoEvent
    /\ completion = NotCompleted

\* what the player and the browser may do to the page
NextPuzzle ==
    \/ \E dataWords \in Chains : FetchResolves(dataWords)
    \/ FetchFails("HTTP error! status: 500")
    \/ \E index \in 0..3 : ClickWord(index)
    \/ \E key \in Keys : PressKey(key)
    \/ PressBackspace
    \/ \E index \in 0..3 : ClickGo(index)
    \/ Tick(MaxTicks)
    \/ Revert
    \/ TimerEffect
    \/ CompleteEffect
    \/ GameOverEffect
    \/ ClickReload
    \/ ReloadTimeout

SpecPuzzle == InitPuzzle /\ [][NextPuzzle]_vars

\* the handlers of the board called for any row, as handleSubmitWord
\* guards itself: the GO button is not consulted
NextOps ==
    \/ FetchResolves(Chain4)
    \/ \E index \in 0..3 : ClickWord(index)
    \/ \E key \in Keys : PressKey(key)
    \/ PressBackspace
    \/ \E index \in 0..3 : page.totalGuesses < MaxGuesses /\ Submit(index)
    \/ Revert
    \/ TimerEffect

SpecOps == InitPuzzle /\ [][NextOps]_vars

\* a player who only types and submits, the timer running to MaxTimer
NextTimer ==
    \/ FetchResolves(Chain3)
    \/ \E key \in Keys : PressKey(key)
    \/ \E index \in 0..2 : ClickGo(index)
    \/ Tick(MaxTimer)
    \/ TimerEffect
    \/ CompleteEffect
    \/ GameOverEffect

SpecTimer == InitPuzzle /\ [][NextTimer]_vars

\* a chain as src/unnamed/part_001 returns it: the words of the generator
\* as they were parsed, here in lower case
ChainLower == << <<"g","o">>, <<"u","p">>, <<"o","n">> >>

\* the page on chains in upper and in lower case
NextCase ==
    \/ \E dataWords \in {Chain3, ChainLower} : FetchResolves(dataWords)
    \/ \E key \in Keys : PressKey(key)
    \/ PressBackspace
    \/ \E index \in 0..2 : ClickGo(index)
    \/ Revert
    \/ TimerEffect

SpecCase == InitPuzzle /\ [][NextCase]_vars

\* a chain whose interior word has one letter more than the longer of the
\* two inputs can hold; the endpoints put no limit on the length of a word
ChainLong ==
    << <<"G","O">>, [j \in 1..(Capacity("page") + 1) |-> "P"], <<"O","N">> >>

\* the board played on a short and on a long word
NextLong ==
    \/ \E dataWords \in {Chain3, ChainLong} : FetchResolves(dataWords)
    \/ \E index \in 0..2 : ClickWord(index)
    \/ \E key \in Keys : PressKey(key)
    \/ PressBackspace
    \/ \E index \in 0..2 : ClickGo(index)
    \/ Revert
    \/ TimerEffect

SpecLong == InitPuzzle /\ [][NextLong]_vars

\* one caller none of whose requests succeeds: the length is out of range
\* or the generator fails
NextCharge ==
    \/ \E request \in RateRequests : GETStart(request, Slots)
    \/ \E r \in Slots :
          GETResume(r, Threw("429 You exceeded your current quota"))
    \/ AdvanceTime

SpecCharge == Init /\ [][NextCharge]_vars

\* getStarRating for every timer and every number of lives
InitStars ==
    /\ InitServer
    /\ apiKeyConfigured = TRUE
    /\ page \in {InitPage(client) : client \in Clients}
    /\ tasks = NoTasks
    /\ event = NoEvent
    /\ completion \in {[done |-> FALSE, timer |-> t, lives |-> l, rating |-> 0] :
                          t \in 0..MaxSeconds, l \in 0..5}

Rate ==
    /\ ~completion.done
    /\ completion' = [completion EXCEPT
                        !.done = TRUE,
                        !.rating = getStarRating(completion.timer,
                                                 completion.lives)]
    /\ UNCHANGED <<serverVars, page, tasks, event>>

SpecStars == InitStars /\ [][Rate]_vars

\* one caller whose requests are answered at once, the clock advancing by
\* a minute and a half and a millisecond, by a millisecond less than the
\* window, and by StepMs
RetryRequests == {Request(Null, Some(<<"7">>), Some(<<"2">>))}
ElapseSet == {90001, windowMs - 1, StepMs}
\* the milliseconds that pass between the two readings of the clock
Delays == {0, 1}

NextRetry ==
    \/ \E request \in RetryRequests, ms \in Delays :
          GETStartSlow(request, {}, ms)
    \/ \E ms \in ElapseSet : Elapse(ms)

SpecRetry == Init /\ [][NextRetry]_vars

(***************************************************************************)
(* The rate limiter: C1 to C5                                              *)
(***************************************************************************)
Min(a, b) == IF a < b THEN a ELSE b
Answered == last.pc = "done"

\* C1: for every caller key, in every reachable state of the store, the
\* count of its record lies between 1 and maxRequests, and the requests
\* answered 'allowed' in one window of the caller never exceed maxRequests.
RateLimitInvariant ==
    \A k \in AllKeys :
        /\ k \in DOMAIN rateLimitStore
              => rateLimitStore[k].count \in 1..maxRequests
        /\ winAllowed[k] <= maxRequests

\* a caller at its limit who has been rejected in this window
RateLimitWitness ==
    \E k \in AllKeys :
        /\ k \in DOMAIN rateLimitStore
        /\ rateLimitStore[k].count = maxRequests
        /\ winAllowed[k] = maxRequests
        /\ winReqs[k] > maxRequests

\* C2: of the requests of one caller inside one window the first
\* maxRequests are allowed and every later one is answered 429, whatever
\* the other callers do: the request at position n of its window is
\* rejected exactly when n > maxRequests.
QuotaIsExact ==
    /\ \A k \in AllKeys : winAllowed[k] = Min(winReqs[k], maxRequests)
    /\ Answered /\ last.handler = "route"
          => (last.resp.status = 429 <=> last.ordinal > maxRequests)

\* the request after the last allowed one is rejected while another caller
\* is inside its own quota
QuotaWitness ==
    /\ Answered
    /\ last.ordinal = maxRequests + 1
    /\ last.resp.status = 429
    /\ \E k \in AllKeys : k # last.key /\ winReqs[k] \in 1..maxRequests

\* a request of caller k arrives in this step
Arrives(k) == winReqs'[k] # winReqs[k] \/ winStart'[k] # winStart[k]
\* the record of caller k is absent or its window is over
Expired(k) ==
    k \notin DOMAIN rateLimitStore \/ now >= rateLimitStore[k].resetTime

WindowResetStep ==
    \A k \in AllKeys :
        /\ Arrives(k) /\ Expired(k)
              => /\ k \in DOMAIN rateLimitStore'
                 /\ rateLimitStore'[k] = [count |-> 1, resetTime |-> now + windowMs]
                 /\ last'.key = k
                 /\ last'.resp.status # 429
        /\ (/\ k \in DOMAIN rateLimitStore
            /\ k \in DOMAIN rateLimitStore'
            /\ rateLimitStore'[k].resetTime # rateLimitStore[k].resetTime)
              => Arrives(k) /\ Expired(k)

SameWindow(x, y) == x.key = y.key /\ x.win = y.win
Passed(x) == x.handler = "route" /\ x.pc # "idle" /\ x.allowed

RejectionKeepsRecord ==
    [][Answered' /\ last'.resp.status = 429
          => rateLimitStore' = rateLimitStore]_vars

\* the second rejection in a row, later in the window, the record as the
\* last allowed request left it
RejectionWitness ==
    /\ Answered
    /\ last.resp.status = 429
    /\ last.ordinal = maxRequests + 2
    /\ now > last.win
    /\ rateLimitStore[last.key] = [count |-> maxRequests,
                                   resetTime |-> last.win + windowMs]

(***************************************************************************)
(* The length parameter: C6 and C7                                         *)
(***************************************************************************)
\* the exchanges of a state: the one just answered and those suspended
Exchanges == {last} \cup {inflight[r] : r \in Slots}

\* a decimal numeral with an optional sign
IsNumeral(o) ==
    /\ Truthy(o)
    /\ LET d == IF o.s[1] \in {"-", "+"} THEN Tail(o.s) ELSE o.s
       IN  d # <<>> /\ \A i \in DOMAIN d : IsDigit(d[i])

\* the natural number a sequence of decimal digits writes
RECURSIVE DecimalOf(_)
DecimalOf(d) ==
    IF d = <<>> THEN 0
    ELSE 10 * DecimalOf(SubSeq(d, 1, Len(d) - 1))
         + (IndexIn(d[Len(d)], DigitSeq) - 1)

\* the integer a numeral writes
IntegerOf(o) ==
    IF o.s[1] = "-" THEN 0 - DecimalOf(Tail(o.s))
    ELSE IF o.s[1] = "+" THEN DecimalOf(Tail(o.s))
    ELSE DecimalOf(o.s)

\* the inclusive bounds of the length in each endpoint
LowerBound(handler) == IF handler = "route" THEN 3 ELSE 2
UpperBound(handler) == IF handler = "route" THEN 8 ELSE 20

\* the exchange is of a request whose length is an integer out of bounds
OutOfBounds(x) ==
    /\ x.handler \in {"route", "plain"}
    /\ IsNumeral(x.request.length)
    /\ \/ IntegerOf(x.request.length) < LowerBound(x.handler)
       \/ IntegerOf(x.request.length) > UpperBound(x.handler)

NonNumericIs400 ==
    \A x \in Exchanges :
        /\ x.handler \in {"route", "plain"}
        /\ Truthy(x.request.length)
        /\ isNaN(parseInt(x.request.length.s, 10))
        => /\ x.pc = "done"
           /\ x.genCalls = 0
           /\ x.resp.status = 400
           /\ "error" \in x.resp.keys

(***************************************************************************)
(* Generation: C8 to C10                                                   *)
(***************************************************************************)
\* a word of a chain: not empty, trimmed and in upper case
CleanWord(w) == w # <<>> /\ w = toUpperCase(trim(w))

\* C8: a 200 response carries exactly as many words as the valid length
\* asked for, each a non-empty string that is its own trimmed, uppercased
\* form; a generator output that gives no such array is not answered 200.
WordsWellFormed ==
    Answered /\ last.resp.status = 200 =>
        /\ ~isNaN(last.length)
        /\ last.length.n \in LowerBound(last.handler)..UpperBound(last.handler)
        /\ Len(last.resp.words) = last.length.n
        /\ \A i \in DOMAIN last.resp.words : CleanWord(last.resp.words[i])

\* the fixed body of a generation error in each endpoint
GenerationError(handler) ==
    IF handler = "route"
    THEN Response(500, {"error", "message"}, "Failed to generate word chain",
                  "Please try again in a moment.", 0, <<>>, NoHeaders)
    ELSE Response(500, {"error"}, "Word chain generation failed",
                  "", 0, <<>>, NoHeaders)

\* the generator call threw or completed without content
CallFailed(x) == x.outcome.kind = "throw" \/ ~Truthy(x.outcome.content)

\* the content is a JSON array of another number of elements than asked for
WrongCount(x) ==
    /\ ~CallFailed(x)
    /\ JSONparse(x.outcome.content.s).ok
    /\ JSONparse(x.outcome.content.s).val.t = "arr"
    /\ StrictNe(Num(Len(JSONparse(x.outcome.content.s).val.a)), x.length)

\* no strategy reads the content: it is no JSON, holds no bracketed part and
\* fewer words than asked for
Unparseable(x) ==
    /\ ~CallFailed(x)
    /\ ~JSONparse(x.outcome.content.s).ok
    /\ ~BracketMatch(x.outcome.content.s).ok
    /\ ~Ge(Num(Len(WordMatches(x.outcome.content.s, 1))), x.length)

\* C9: once the generator has been called, the answer is 200 or the fixed
\* generation error of the endpoint, never 400 or 429; an exception, an
\* empty content, a wrong element count and an unparseable text are all
\* answered with that 500, and no field of its body is the logged text of
\* the exception.
GenerationFailureIs500 ==
    Answered /\ last.genCalls > 0 =>
        /\ last.resp.status \in {200, 500}
        /\ CallFailed(last) \/ WrongCount(last) \/ Unparseable(last)
              => last.resp.status = 500
        /\ last.resp.status = 500 =>
              /\ last.resp = GenerationError(last.handler)
              /\ last.log # ""
              /\ last.log \notin {last.resp.error, last.resp.message}

\* the rate-limited endpoint answers an exception of the generator
GenerationFailureWitness ==
    /\ Answered
    /\ last.handler = "route"
    /\ last.outcome.kind = "throw"
    /\ last.log = "401 Incorrect API key provided"
    /\ last.resp = GenerationError("route")

\* C10: no exchange has called the generator more than once, and the step
\* in which a generator call settles, with whatever outcome, answers the
\* request and leaves no handler suspended on a second call.
GeneratorCalledOnce ==
    /\ \A x \in Exchanges : x.genCalls <= 1
    /\ \A r \in Slots : inflight[r].pc = "awaiting" => inflight[r].genCalls = 1
    /\ Answered /\ last.genCalls > 0 /\ last.resp.status # 200
          => last.genCalls = 1 /\ Quiet

\* an invalid output of the only call is answered with the error
GeneratorCalledOnceWitness ==
    /\ Answered
    /\ last.handler = "route"
    /\ last.genCalls = 1
    /\ WrongCount(last)
    /\ last.resp.status = 500

(***************************************************************************)
(* The board: C11 to C19                                                   *)
(***************************************************************************)
\* the step is a call handleSubmitWord(index)
Submitted(index) == event'.op = "submit" /\ event'.index = index

\* the rows a chain can have
Rows == 0..3

\* the first n characters of the word
Prefix(word, n) == SubSeq(word, 1, n)

\* C11: a submit of a non-boundary word whose input differs from the
\* solution takes exactly one life (never below 0), leaves the word failed,
\* raises its hintsRevealed by one up to the length of the word, and resets
\* its input to exactly that many first letters, the cursor behind them.
IncorrectSubmit ==
    [][\A index \in Rows :
         (/\ Submitted(index)
          /\ ~IsBoundary(page.words, index)
          /\ ~isCorrect(page.words[index + 1]))
         => /\ page'.lives = page.lives - 1
            /\ page'.lives >= 0
            /\ page'.words[index + 1].status = "failed"
            /\ page'.words[index + 1].hintsRevealed =
                  MathMin(page.words[index + 1].hintsRevealed + 1,
                          Len(page.words[index + 1].word))
            /\ page'.words[index + 1].currentIndex =
                  page'.words[index + 1].hintsRevealed
            /\ Join(page'.words[index + 1].userInput) =
                  Prefix(page.words[index + 1].word,
                         page'.words[index + 1].hintsRevealed)]_vars

\* C12: a submit of a non-boundary word whose input is the solution makes
\* the word solved and leaves the lives and the hints, the input and the
\* cursor of the word as they were; a solved word stays solved as long as
\* the page is not reloaded.
CorrectSubmit ==
    /\ [][\A index \in Rows :
            (/\ Submitted(index)
             /\ ~IsBoundary(page.words, index)
             /\ isCorrect(page.words[index + 1]))
            => /\ page'.lives = page.lives
               /\ page'.words[index + 1] =
                     [page.words[index + 1] EXCEPT !.status = "solved"]]_vars
    /\ [][\A k \in DOMAIN page.words :
            (k \in DOMAIN page'.words /\ page.words[k].status = "solved")
            => page'.words[k].status = "solved"]_vars

\* a word is solved after a wrong guess, and the timeout of that guess
\* fires on the solved word
CorrectSubmitWitness ==
    /\ Len(page.words) = 4
    /\ page.words[2].status = "solved"
    /\ page.words[2].hintsRevealed = 2
    /\ page.lives = 4
    /\ page.totalGuesses = 2
    /\ tasks.reverts = <<>>
    /\ Screen(page) = "board"

CursorBehindHints ==
    \A k \in DOMAIN page.words :
       ~IsBoundary(page.words, k - 1)
       => /\ page.words[k].currentIndex >= page.words[k].hintsRevealed
          /\ page.words[k].hintsRevealed >= 1

\* C15: the lives are always between 0 and 5 and the game-over screen is
\* shown exactly when they are 0; the game becomes over in the step of a
\* wrong submit that takes the lives from 1 to 0, whatever the other words
\* are, and no step changes the lives afterwards other than a reload.
LivesAndGameOver ==
    /\ [](/\ page.lives \in 0..5
          /\ Screen(page) = "over" <=> page.lives = 0)
    /\ [][(Screen(page) # "over" /\ Screen(page') = "over")
          => /\ page.lives = 1
             /\ page'.lives = 0
             /\ \E index \in Rows :
                   /\ Submitted(index)
                   /\ ~IsBoundary(page.words, index)
                   /\ ~isCorrect(page.words[index + 1])]_vars
    /\ [][(Screen(page) = "over" /\ Screen(page') # "loading")
          => page'.lives = 0]_vars

\* the game is over while one word is solved and another has just failed
LivesAndGameOverWitness ==
    /\ Screen(page) = "over"
    /\ page.lives = 0
    /\ Len(page.words) = 4
    /\ page.words[2].status = "solved"
    /\ page.words[3].status = "failed"
    /\ event = Event("submit", 2)

\* C19: the first and the last word are solved in every state and their
\* fields are what the fetch made them: no key, backspace or submit changes
\* them, also when the player has selected one of them.
BoundaryWordsFixed ==
    \A k \in DOMAIN page.words :
       IsBoundary(page.words, k - 1)
       => /\ page.words[k].status = "solved"
          /\ page.words[k].userInput = Blank(Capacity(page.client))
          /\ page.words[k].currentIndex = 0
          /\ page.words[k].hintsRevealed = 0

\* handleSubmitWord has been called for the first word while it was the
\* selected one, and has not counted a guess
BoundaryWordsFixedWitness ==
    /\ Screen(page) = "board"
    /\ page.selectedWordIndex = 0
    /\ event = Event("submit", 0)
    /\ page.totalGuesses = 0

(***************************************************************************)
(* The rating and the timer: C16 to C18                                    *)
(***************************************************************************)
\* C16: for every number of elapsed seconds and every number of lives from
\* 0 to 5 the rating is 3 when the seconds are at most 60 and the lives at
\* least 4, otherwise 2 when the seconds are at most 120 and the lives at
\* least 2, otherwise 1.
StarRatingTable ==
    completion.done =>
       /\ completion.rating \in {1, 2, 3}
       /\ completion.rating = 3
             <=> (completion.timer <= 60 /\ completion.lives >= 4)
       /\ completion.rating = 1
             <=> (completion.timer > 120 \/ completion.lives < 2)

\* a chain completed at the sixtieth second with four lives is rated 3
StarRatingTableWitness ==
    /\ completion.done
    /\ completion.timer = 60
    /\ completion.lives = 4
    /\ completion.rating = 3

\* the rating the completion screen shows: getStarRating() of the render
ShownRating == getStarRating(page.timer, page.lives)

\* C17: while the completion screen is shown, the rating it shows is the
\* rating computed from the timer and the lives of the instant the chain
\* became complete, whatever ticks and callbacks were pending.
RatingFixedAtCompletion ==
    (completion.done /\ Screen(page) = "complete")
    => ShownRating = completion.rating

\* C18: the timer changes only by a tick, by exactly one, and only while
\* the chain is not complete and the lives are not 0; a tick set before
\* the end of the game changes nothing after it.
TimerStopsAtEnd ==
    [][(page'.timer # page.timer /\ ~page'.loading)
       => /\ page'.timer = page.timer + 1
          /\ ~(isGameComplete(page) /\ Len(page.words) > 0)
          /\ ~isGameOver(page)]_vars

(***************************************************************************)
(* The minutes of a rejection: C20                                         *)
(***************************************************************************)
\* what is left of the window of the caller when the rejection is built
Remaining == last.headers.reset - now

\* C20: a rejection carries retryAfter = ceil((resetTime - now) / 60000),
\* what is left of the window of the caller in whole minutes rounded up,
\* so that 1 <= retryAfter <= 15.
RetryAfterAtLeastOne ==
    (Answered /\ last.resp.status = 429)
    => /\ last.resp.retryAfter = CeilDiv(Remaining, 60000)
       /\ last.resp.retryAfter >= 1
       /\ last.resp.retryAfter <= 15

\* C20, amended: retryAfter is the least number of whole minutes that
\* covers what is left of the window of the caller at the clock reading of
\* GET; it is at most 15, and it is 0 instead of at least 1 exactly when
\* the window has ended between the reading of checkRateLimit and that one.
RetryAfterRoundsUp ==
    (Answered /\ last.resp.status = 429)
    => /\ last.headers.reset = rateLimitStore[last.key].resetTime
       /\ last.resp.retryAfter * 60000 >= Remaining
       /\ (last.resp.retryAfter - 1) * 60000 < Remaining
       /\ last.resp.retryAfter \in 0..15
       /\ last.resp.retryAfter = 0 <=> Remaining <= 0

\* thirteen and a half minutes are left and the rejection says fourteen
RetryAfterRoundsUpWitness ==
    /\ Answered
    /\ last.resp.status = 429
    /\ Remaining = windowMs - 90001
    /\ last.resp.retryAfter = 14

(***************************************************************************)
(* The life of a word: C21 to C26                                          *)
(***************************************************************************)
\* the step changes the status of word k of the same game from a to b
Turns(k, a, b) ==
    /\ k \in DOMAIN page.words
    /\ k \in DOMAIN page'.words
    /\ page.words[k].status = a
    /\ page'.words[k].status = b

Statuses == {"unsolved", "solving", "solved", "failed"}

\* the edges of the diagram unsolved -> solving -> {solved, failed} ->
\* unsolved
DiagramEdges ==
    {<<"unsolved", "solving">>, <<"solving", "solved">>,
     <<"solving", "failed">>, <<"failed", "unsolved">>}

\* the edges the handlers take: a key makes any unsolved word solving, a
\* submit judges a word in any status but solved, the timeout takes a
\* failed word back
HandlerEdges ==
    DiagramEdges \cup
    {<<"failed", "solving">>, <<"unsolved", "solved">>,
     <<"unsolved", "failed">>, <<"failed", "solved">>}

\* C21: the status of a non-boundary word changes only along unsolved ->
\* solving, solving -> solved, solving -> failed and failed -> unsolved.
StatusFollowsDiagram ==
    [][\A k \in DOMAIN page.words : \A a, b \in Statuses :
         (Turns(k, a, b) /\ a # b /\ ~IsBoundary(page.words, k - 1))
         => <<a, b>> \in DiagramEdges]_vars

\* C21, amended: the status of a non-boundary word changes only along the
\* edges of the diagram and along failed -> solving (a key during the
\* display of the failure), unsolved -> solved, unsolved -> failed and
\* failed -> solved (a submit of a word that is not being typed); a word
\* becomes solved or failed only in a submit of it, and a solved word
\* never changes.
StatusFollowsHandlers ==
    [][\A k \in DOMAIN page.words : \A a, b \in Statuses :
         (Turns(k, a, b) /\ a # b /\ ~IsBoundary(page.words, k - 1))
         => /\ <<a, b>> \in HandlerEdges
            /\ (b \in {"solved", "failed"} => Submitted(k - 1))
            /\ (b \in {"unsolved", "solving"} => event' = NoEvent)]_vars

\* a word has been submitted a second time while its failure was shown,
\* and is solved with the timeout of the failure still pending
StatusFollowsHandlersWitness ==
    /\ page.client = "part_002"
    /\ Len(page.words) = 3
    /\ page.words[2].status = "solved"
    /\ page.words[2].currentIndex = 2
    /\ page.totalGuesses = 2
    /\ page.lives = 4
    /\ tasks.reverts = <<1>>
    /\ event = Event("submit", 1)

\* the indices of the timeouts of handleSubmitWord that are pending
PendingReverts(t) == {t.reverts[j] : j \in DOMAIN t.reverts}

\* the step runs the oldest timeout of handleSubmitWord
Reverts ==
    /\ tasks.reverts # <<>>
    /\ tasks'.reverts = Tail(tasks.reverts)
    /\ ~page'.loading

\* C22: the timeout of a failing submit takes its word back to unsolved if
\* and only if the word is still failed when it runs, and changes no word
\* otherwise; after two failing submits of a word within one delay the
\* word does not return to unsolved before the timeout of the later one.
FailureShownForItsDelay ==
    [][\A k \in DOMAIN page.words :
         /\ (Reverts /\ k - 1 = Head(tasks.reverts))
            => page'.words[k] =
                 IF page.words[k].status = "failed"
                 THEN [page.words[k] EXCEPT !.status = "unsolved"]
                 ELSE page.words[k]
         /\ (Reverts /\ k - 1 # Head(tasks.reverts))
            => page'.words[k] = page.words[k]
         /\ Turns(k, "failed", "unsolved")
            => /\ Reverts
               /\ k - 1 \notin PendingReverts(tasks')]_vars

\* the game has ended: the chain is complete or the lives are used up
Ended(p) == (isGameComplete(p) /\ Len(p.words) > 0) \/ isGameOver(p)

\* the status of every word of the page
StatusOf(p) == [k \in DOMAIN p.words |-> p.words[k].status]

\* C23: once the chain is complete or the lives are used up, no pending
\* timeout of a failed guess and no pending tick of the timer changes the
\* status of a word, the timer or the lives.
TasksTornDownAtEnd ==
    [][(Ended(page) /\ ~page'.loading)
       => /\ StatusOf(page') = StatusOf(page)
          /\ page'.timer = page.timer
          /\ page'.lives = page.lives]_vars

\* C24: once the lives are 0 the board is gone, so that no key, backspace
\* or submit changes the lives, totalGuesses, selectedWordIndex or a word:
\* a step is a reload, after which the chain is fetched again, or leaves
\* all of them alone but for the timer and the status a timeout takes back.
NoPlayAfterGameOver ==
    /\ [](page.lives = 0 => Screen(page) = "over")
    /\ [][page.lives = 0
          => \/ page' = InitPage(page.client)
             \/ /\ event' = NoEvent
                /\ page'.lives = 0
                /\ page'.totalGuesses = page.totalGuesses
                /\ page'.selectedWordIndex = page.selectedWordIndex
                /\ \A k \in DOMAIN page.words :
                      \/ page'.words[k] = page.words[k]
                      \/ /\ Reverts
                         /\ page'.words[k] =
                              [page.words[k] EXCEPT !.status = "unsolved"]]_vars

\* the game is over, its last failure has been taken back and the reload
\* is set
NoPlayAfterGameOverWitness ==
    /\ page.lives = 0
    /\ Screen(page) = "over"
    /\ tasks.reload
    /\ tasks.reverts = <<>>
    /\ page.totalGuesses = 5
    /\ \A k \in DOMAIN page.words : page.words[k].status # "failed"

\* C25: a correct submit of the non-boundary word i selects word i + 1 when
\* i is not the last non-boundary word and leaves the selection alone when
\* it is; no submit moves the selection to the first or the last word.
SelectionAfterSubmit ==
    /\ [][\A index \in Rows :
            (/\ Submitted(index)
             /\ ~IsBoundary(page.words, index)
             /\ isCorrect(page.words[index + 1]))
            => page'.selectedWordIndex =
                 IF index = Len(page.words) - 2
                 THEN page.selectedWordIndex ELSE index + 1]_vars
    /\ [][(event'.op = "submit"
           /\ page'.selectedWordIndex # page.selectedWordIndex)
          => ~IsBoundary(page'.words, page'.selectedWordIndex)]_vars

\* the last non-boundary word is solved before the one in front of it, and
\* stays selected
SelectionAfterSubmitWitness ==
    /\ Len(page.words) = 4
    /\ event = Event("submit", 2)
    /\ page.words[3].status = "solved"
    /\ page.words[2].status # "solved"
    /\ page.selectedWordIndex = 2
    /\ page.lives = 5

\* C26: totalGuesses counts the calls of handleSubmitWord for non-boundary
\* words since the fetch, right or wrong and whatever the status of the
\* word: each adds one and nothing else changes it; a call for the first
\* or the last word changes nothing of the page, totalGuesses included.
GuessesCountSubmits ==
    /\ [][\A index \in Rows :
            (Submitted(index) /\ index < Len(page.words))
            => IF IsBoundary(page.words, index)
               THEN page' = page /\ tasks' = tasks
               ELSE page'.totalGuesses = page.totalGuesses + 1]_vars
    /\ [][(page'.totalGuesses # page.totalGuesses /\ ~page'.loading)
          => \E index \in Rows :
                Submitted(index) /\ ~IsBoundary(page.words, index)]_vars
    /\ [](page.loading => page.totalGuesses = 0)

\* three guesses on one word: a wrong one, the right one and one more on
\* the solved word
GuessesCountSubmitsWitness ==
    /\ Len(page.words) = 4
    /\ page.totalGuesses = 3
    /\ page.lives = 4
    /\ page.words[2].status = "solved"
    /\ page.words[3].status = "unsolved"
    /\ page.words[3].currentIndex = 1
    /\ event = Event("submit", 1)

(***************************************************************************)
(* The letters of a word: C27 to C29                                       *)
(***************************************************************************)
\* the guess of the word is its solution but for the case of the letters
SpellsSolution(word) ==
    /\ Len(trim(Join(word.userInput))) = Len(word.word)
    /\ toUpperCase(trim(Join(word.userInput))) = toUpperCase(word.word)

\* C27: a submit judges the guess right if and only if the characters of
\* userInput, joined and trimmed, are the solution but for the case of the
\* letters and have its length; so the hint and the typed letters of a
\* word that was delivered in lower case are judged right when they spell
\* it.
SubmitIgnoresCase ==
    [][\A index \in Rows :
         (Submitted(index) /\ ~IsBoundary(page.words, index))
         => (page'.words[index + 1].status = "solved"
               <=> SpellsSolution(page.words[index + 1]))]_vars

\* what the claim says a key does to the word at row index of the page
KeyWritten(p, index, key) ==
    [p EXCEPT !.words[index + 1] =
       [@ EXCEPT !.userInput[p.words[index + 1].currentIndex + 1] =
                    UpperChar(key),
                 !.currentIndex = @ + 1,
                 !.status = "solving"]]

\* the keys of the keyboard of the model, and a letter in lower case
TypedKeys == Keys \cup {"p"}

\* C28: a key changes nothing when the selected word is the first or the
\* last, is solved or has its cursor at the capacity; otherwise it writes
\* the letter in upper case at the cursor, moves the cursor on by one and
\* makes the word solving; the cursor of every word is always between 0
\* and the capacity.
KeyPressContract ==
    /\ \A k \in DOMAIN page.words :
          page.words[k].currentIndex \in 0..Capacity(page.client)
    /\ (Screen(page) = "board"
        => \A key \in TypedKeys :
              handleKeyPress(page, key) =
                IF \/ IsBoundary(page.words, page.selectedWordIndex)
                   \/ page.words[page.selectedWordIndex + 1].status = "solved"
                   \/ page.words[page.selectedWordIndex + 1].currentIndex
                        = Capacity(page.client)
                THEN page
                ELSE KeyWritten(page, page.selectedWordIndex, key))

\* the word has been typed to its last position
KeyPressContractWitness ==
    /\ Screen(page) = "board"
    /\ page.client = "part_002"
    /\ page.selectedWordIndex = 1
    /\ page.words[2].currentIndex = 9
    /\ page.words[2].userInput[9] = "P"
    /\ page.words[2].status = "solving"

\* C29: the fetch of a chain of three or more words leaves the first and
\* the last word solved and every other word unsolved with one hint, the
\* cursor at 1, the first letter of the solution in userInput and nothing
\* behind it; the first non-boundary word is selected, the lives are 5,
\* the timer and totalGuesses 0, and the timer is running.
InitializedChain ==
    [][(page.loading /\ ~page'.loading /\ page'.error.null)
       => /\ Len(page'.words) >= 3
          /\ \A k \in DOMAIN page'.words :
                IF k = 1 \/ k = Len(page'.words)
                THEN page'.words[k].status = "solved"
                ELSE /\ page'.words[k].status = "unsolved"
                     /\ page'.words[k].hintsRevealed = 1
                     /\ page'.words[k].currentIndex = 1
                     /\ page'.words[k].userInput[1] = page'.words[k].word[1]
                     /\ \A j \in 2..Len(page'.words[k].userInput) :
                           page'.words[k].userInput[j] = ""
          /\ page'.selectedWordIndex = 1
          /\ page'.lives = 5
          /\ page'.timer = 0
          /\ page'.totalGuesses = 0
          /\ page'.isTimerRunning]_vars

(***************************************************************************)
(* The three ways to read the generator: C30                               *)
(***************************************************************************)
\* every word trimmed and in upper case
Normal(words) == [i \in DOMAIN words |-> toUpperCase(trim(words[i]))]

\* the parsed text is an array of length non-blank strings
ChainOf(parsed, length) ==
    /\ parsed.ok
    /\ parsed.val.t = "arr"
    /\ Num(Len(parsed.val.a)) = length
    /\ \A i \in DOMAIN parsed.val.a :
          parsed.val.a[i].t = "str" /\ trim(parsed.val.a[i].s) # <<>>

\* the answer carries the words of the array
AnswersArray(x, parsed) ==
    /\ x.resp.status = 200
    /\ Normal(x.resp.words) = CleanWords(parsed.val.a)

\* the answer carries the first length bare words of the text
AnswersTokens(x, wordMatches) ==
    /\ x.resp.status = 200
    /\ Normal(x.resp.words) = Normal(SubSeq(wordMatches, 1, x.length.n))

\* C30: the text of the generator is read in three ways, the first that
\* succeeds winning: the whole text as an array; else the bracketed part
\* of the text as an array; else the first length bare words when there
\* are that many.  A chain inside prose is answered through the second
\* way, and a generation error needs all three to fail.
ParseChain ==
    (Answered /\ last.genCalls = 1 /\ ~CallFailed(last))
    => /\ ChainOf(JSONparse(last.outcome.content.s), last.length)
          => AnswersArray(last, JSONparse(last.outcome.content.s))
       /\ (/\ ~JSONparse(last.outcome.content.s).ok
           /\ BracketMatch(last.outcome.content.s).ok
           /\ ChainOf(JSONparse(BracketMatch(last.outcome.content.s).text),
                      last.length))
          => AnswersArray(last,
                JSONparse(BracketMatch(last.outcome.content.s).text))
       /\ (/\ ~JSONparse(last.outcome.content.s).ok
           /\ ~BracketMatch(last.outcome.content.s).ok
           /\ Ge(Num(Len(WordMatches(last.outcome.content.s, 1))),
                 last.length))
          => AnswersTokens(last, WordMatches(last.outcome.content.s, 1))
       /\ Unparseable(last) => last.resp.status = 500

(***************************************************************************)
(* Reloads, the sweep and the solved word: C31 to C33                      *)
(***************************************************************************)
\* the fetch has failed or was answered with an error, or the game is over
Failed(p) == Screen(p) \in {"error", "over"}

\* the screen shows a button that reloads the page: Try Again on the error
\* screen, Continue to Next Puzzle on the completion screen
ReloadControl(p) == Screen(p) \in {"error", "complete"}

\* the page starts again: it is loading and its fetch is under way
Restarts == ~page.loading /\ page'.loading

\* C31: after a failed fetch, a response that is not 200 or the game being
\* over, the page is not started again and sends no new generation request
\* unless the player clicks a control that reloads it.
NoAutomaticRetry ==
    [][(Failed(page) /\ Restarts) => ReloadControl(page)]_vars

\* what checkRateLimit answers to key in the run that is never swept: the
\* window of the caller and the requests allowed in it stand for the record
Unswept(key) ==
    IF NewWindow(key)
    THEN [allowed |-> TRUE, remaining |-> maxRequests - 1,
          resetTime |-> now + windowMs]
    ELSE IF winAllowed[key] >= maxRequests
    THEN [allowed |-> FALSE, remaining |-> 0,
          resetTime |-> winStart[key] + windowMs]
    ELSE [allowed |-> TRUE, remaining |-> maxRequests - (winAllowed[key] + 1),
          resetTime |-> winStart[key] + windowMs]

\* the answer of checkRateLimit without the store it leaves
Answer(result) ==
    [allowed |-> result.allowed, remaining |-> result.remaining,
     resetTime |-> result.resetTime]

\* C32: a step removes a record only when now >= resetTime +
\* blockDurationMs, and in every state, whatever sweeps have run among the
\* requests, a request of any caller is answered allowed or rejected, with
\* the remaining quota and the reset time, as in the run without sweeps.
SweepIsHarmless ==
    /\ [][\A k \in DOMAIN rateLimitStore :
            k \notin DOMAIN rateLimitStore'
               => now >= rateLimitStore[k].resetTime + blockDurationMs]_vars
    /\ [](\A k \in AllKeys : Answer(checkRateLimit(k)) = Unswept(k))

\* the record of a caller has been swept and the caller has come back: its
\* request was answered as the first of a new window
SweepIsHarmlessWitness ==
    /\ Answered
    /\ last.handler = "route"
    /\ last.ordinal = 1
    /\ last.win >= windowMs + blockDurationMs
    /\ \E k \in AllKeys : winStart[k] >= 0 /\ k \notin DOMAIN rateLimitStore

\* the word of row index of the chain on the page is solved
SolvedRow(p, index) ==
    /\ ~IsBoundary(p.words, index)
    /\ p.words[index + 1].status = "solved"

\* C33: once a word between the first and the last is solved, no key,
\* backspace, call of handleSubmitWord, tick or callback of an earlier
\* wrong guess changes its status, userInput, currentIndex or hintsRevealed
\* as long as the page is not loaded again.
SolvedIsAbsorbing ==
    [][\A index \in Rows :
          SolvedRow(page, index) /\ ~page'.loading
             => /\ index < Len(page'.words)
                /\ page'.words[index + 1] = page.words[index + 1]]_vars

\* a word of part_002 that was guessed wrong, then solved and then
\* submitted once more, the other word untouched and the callback of the
\* wrong guess having run
SolvedIsAbsorbingWitness ==
    /\ page.client = "part_002"
    /\ SolvedRow(page, 1)
    /\ page.words[2].hintsRevealed = 2
    /\ page.words[3].status = "unsolved"
    /\ page.lives = 4
    /\ page.totalGuesses = 3
    /\ event = Event("submit", 1)
    /\ tasks.reverts = <<>>

(***************************************************************************)
(* The books of a game: C34 to C36                                         *)
(***************************************************************************)
\* handleSubmitWord is called in this step for a word between the first
\* and the last whose input is not the word
WrongGuess(index) ==
    /\ Submitted(index)
    /\ ~IsBoundary(page.words, index)
    /\ ~isCorrect(page.words[index + 1])

\* the letters revealed beyond the first, summed over the rows up to index
RECURSIVE ExtraHints(_, _)
ExtraHints(p, index) ==
    IF index < 0 THEN 0
    ELSE ExtraHints(p, index - 1)
         + (IF IsBoundary(p.words, index) THEN 0
            ELSE p.words[index + 1].hintsRevealed - 1)

\* the books after the step that delivers the chain, and after every later
\* step that is not a reload
AccountingStep ==
    IF page'.loading THEN TRUE
    ELSE IF page.loading
    THEN /\ page'.lives = 5
         /\ \A index \in Rows :
               ~IsBoundary(page'.words, index)
                  => page'.words[index + 1].hintsRevealed
                        = MathMin(Len(page'.words[index + 1].word), 1)
    ELSE /\ page'.lives
              = page.lives - (IF \E index \in Rows : WrongGuess(index)
                              THEN 1 ELSE 0)
         /\ \A index \in Rows :
               ~IsBoundary(page.words, index)
                  => page'.words[index + 1].hintsRevealed
                        = IF WrongGuess(index)
                          THEN MathMin(Len(page.words[index + 1].word),
                                       page.words[index + 1].hintsRevealed + 1)
                          ELSE page.words[index + 1].hintsRevealed

\* C34: lives is 5 less the wrong guesses made so far, and hintsRevealed of
\* every word between the first and the last is the smaller of the length
\* of the word and 1 plus the wrong guesses made on it: both start so when
\* the chain is delivered and move only by a wrong guess, by one; hence the
\* letters revealed beyond the first never number more than the lives lost.
Accounting ==
    /\ [][AccountingStep]_vars
    /\ [](ExtraHints(page, Len(page.words) - 1) <= 5 - page.lives)

\* the input of a word is a buffer of capacity positions, filled below the
\* cursor and empty from it on, whose first hintsRevealed positions hold
\* the letters of the word
WellFormedInput(client, word) ==
    /\ Len(word.userInput) = Capacity(client)
    /\ \A j \in 0..(Capacity(client) - 1) :
          /\ j < word.currentIndex => At(word.userInput, j) # ""
          /\ j >= word.currentIndex => At(word.userInput, j) = ""
          /\ j < word.hintsRevealed
                => At(word.userInput, j) = At(word.word, j)

\* C35: in every reachable state the userInput of every word between the
\* first and the last has exactly capacity positions, those below the
\* cursor are not empty, those at or above it are empty, and those below
\* hintsRevealed hold the letters of the solution: no key and no backspace
\* erases or overwrites a hint.
InputWellFormed ==
    \A index \in Rows :
        ~IsBoundary(page.words, index)
           => WellFormedInput(page.client, page.words[index + 1])

\* every word of the chain on the page is solved
AllSolved(p) ==
    Len(p.words) > 0 /\ \A k \in DOMAIN p.words : p.words[k].status = "solved"

\* C36: no reachable state has every word solved and no life left: a game
\* ends complete or over, never both.
CompleteOrOver == ~(AllSolved(page) /\ page.lives <= 0)

\* a game that is over one word short of complete: the last life was lost
\* on the only word that was still to be solved
CompleteOrOverWitness ==
    /\ page.lives = 0
    /\ Len(page.words) = 4
    /\ page.words[2].status = "solved"
    /\ page.words[3].status = "failed"
    /\ event = Event("submit", 2)

(***************************************************************************)
(* The ways out of a game: C37                                             *)
(***************************************************************************)
\* the pages one action of the player on the board leads to: a click on a
\* row, a key, the backspace key, an enabled GO button
PlayerMoves(p) ==
    IF Screen(p) # "board" THEN {}
    ELSE {[p EXCEPT !.selectedWordIndex = index] :
             index \in 0..(Len(p.words) - 1)}
         \cup {handleKeyPress(p, key) : key \in Keys}
         \cup {handleBackspace(p)}
         \cup {handleSubmitWord(p, index) :
                  index \in {i \in 0..(Len(p.words) - 1) : GoEnabled(p, i)}}

\* the pages the player can bring about from those of frontier
RECURSIVE Playable(_, _)
Playable(found, frontier) ==
    IF frontier = {} THEN found
    ELSE Playable(found \cup UNION {PlayerMoves(p) : p \in frontier},
                  (UNION {PlayerMoves(p) : p \in frontier}) \ found)

CanComplete(p) == \E q \in Playable({p}, {p}) : AllSolved(q)

\* C37: from every reachable state in which the board is shown, the game
\* being neither complete nor over, some sequence of clicks on rows, keys,
\* backspaces and submits leads to the complete chain, whatever chain was
\* delivered, also one whose interior word is longer than the input.
NoDeadEnds == Screen(page) = "board" => CanComplete(page)

(***************************************************************************)
(* What a failed request costs: C38                                        *)
(***************************************************************************)
\* C38: every request that reaches checkRateLimit while its caller has
\* quota raises the count of the caller by one, whether it is then answered
\* 400, 500 or not yet; the requests answered 400 or 500 were allowed by the
\* rate limit; and after maxRequests requests in one window, none of which
\* succeeded, the next request of the caller is answered 429.
QuotaChargedFirst ==
    /\ [][\A k \in AllKeys :
            Arrives(k) /\ Observed(k) < maxRequests
               => /\ k \in DOMAIN rateLimitStore'
                  /\ rateLimitStore'[k].count = Observed(k) + 1]_vars
    /\ [](Answered /\ last.handler = "route"
            => /\ last.resp.status \in {400, 429, 500}
               /\ (last.resp.status \in {400, 500} => last.allowed)
               /\ (last.ordinal > maxRequests => last.resp.status = 429))

\* a request with a valid length, the first after maxRequests requests of
\* its window that were answered 400 or 500, is answered 429
QuotaChargedFirstWitness ==
    /\ Answered
    /\ Quiet
    /\ last.handler = "route"
    /\ last.request.length = Null
    /\ last.ordinal = maxRequests + 1
    /\ last.resp.status = 429
====
